---- MODULE Spec2Model ----
(***************************************************************************)
(* Orchestration engine of the image processor: core.Processor (Process,   *)
(* Submit, Batch, the worker pool, the retry policy) and pipeline.Pipeline *)
(* (Run, runStep), modelled as state machines over goroutines.             *)
(***************************************************************************)
EXTENDS Integers, Sequences, FiniteSets, TLC

VARIABLES
    cfg,            \* config.Config of the Processor (fixed after New)
    hooks,          \* Processor.hooks / Pipeline.hooks, in registration order
    jobQueue,       \* Processor.jobQueue: buffered channel of Job
    shutdown,       \* Processor.shutdown: "open" or "closed"
    once,           \* Processor.once: "idle", "running", "done"
    wg,             \* Processor.wg counter
    processedCount, \* Processor.processedCount
    errorCount,     \* Processor.errorCount
    panicked,       \* an unrecovered panic has ended the process
    ctxState,       \* per caller scope: "none" or "canceled"
    pc,             \* per goroutine: position in its code
    frame,          \* per goroutine: arguments of its Process / Run call
    lv,             \* per goroutine: locals of Process / runWithRetry / Run / runStep
    ret,            \* per goroutine: what its Process / Run call returned
    log,            \* per goroutine: hook events and Execute calls, in order
    deadline,       \* per goroutine: the job deadline, "off", "armed", "expired"
    returned,       \* number of Process calls that have returned
    jobs,           \* the Job values the client submits, by job number
    submitted,      \* what each Submit call so far returned, in call order
    launched,       \* number of worker goroutines ever launched
    curJob,         \* per worker: the job it dequeued last (0: none yet)
    jobState,       \* per job: "new", "rejected", "queued", "running", "done"
    lifeCalls,      \* Start / Stop calls made so far and those that returned
    chans,          \* result destinations: buffered contents per channel
    received,       \* JobResults the client has received, in order
    batch,          \* Batch call: sources, results, errs, WaitGroup
    pipeline,       \* a pipeline.Pipeline: steps, hooks, maxRetries
    variants,       \* ProcessVariants call: definitions, base, map, errs, WaitGroup
    registry        \* a DefaultRegistry: its RWMutex and its two maps

vars == <<cfg, hooks, jobQueue, shutdown, once, wg, processedCount, errorCount,
          panicked, ctxState, pc, frame, lv, ret, log, deadline, returned,
          jobs, submitted, launched, curJob, jobState, lifeCalls, chans, received,
          batch, pipeline, variants, registry>>

procVars == <<pc, frame, lv, ret, log, deadline>>
counterVars == <<processedCount, errorCount, returned>>
poolVars == <<jobQueue, shutdown, once, wg, jobs, submitted, launched, curJob, jobState,
              lifeCalls, chans, received>>
otherVars == <<batch, pipeline, variants, registry>>

-----------------------------------------------------------------------------
(* Bounds of the model *)

MaxRetriesBound == 2    \* cfg.MaxRetries ranges over -1..MaxRetriesBound
MaxSteps == 2           \* longest step list submitted
MaxJobs == 3            \* jobs a client may submit to the pool
MaxBatch == 3           \* sources in one Batch call
MaxLifeCalls == 2       \* Start / Stop calls made in one run
MaxVariants == 2        \* variant definitions in one ProcessVariants call
SrcWidth == 16          \* pixel width of every well-formed source image
MaxDim == 4             \* largest dimension handed to ScaleDimensions
MaxQuality == 5         \* largest quality an adaptive compression starts from

(* Program constants *)

NumCPU == 2             \* runtime.NumCPU() of the modelled machine
DefaultQueueSize == 256
DefaultChunkSize == 32768
MagicLen == 4           \* DetectFormat needs at least 4 bytes
DefaultStepSize == 5    \* AdaptiveCompressStep's decrement when StepSize <= 0

-----------------------------------------------------------------------------
(* errors/errors.go *)

NoErr == [kind |-> "nil"]
Plain(msg, n) == [kind |-> "plain", msg |-> msg, n |-> n]

ErrUnsupportedFormat == Plain("unsupported image format", 0)
ErrEmptyInput == Plain("empty input", 0)
ErrWorkerPoolFull == Plain("worker pool queue full", 0)
ErrUnexpectedEOF == Plain("unexpected EOF", 0)
EOF == Plain("EOF", 0)
Canceled == Plain("context canceled", 0)
DeadlineExceeded == Plain("context deadline exceeded", 0)

New(category, op, err) ==
    [kind |-> "pe", Category |-> category, Op |-> op, Err |-> err, Retryable |-> FALSE]

Transient(op, err) ==
    [kind |-> "pe", Category |-> "transient", Op |-> op, Err |-> err, Retryable |-> TRUE]

Wrap(category, op, err) ==
    IF err = NoErr THEN NoErr ELSE New(category, op, err)

IsRetryable(err) ==
    IF err.kind = "pe" THEN err.Retryable ELSE FALSE

IsCategory(err, cat) ==
    IF err.kind = "pe" THEN err.Category = cat ELSE FALSE

-----------------------------------------------------------------------------
(* core types: ImageData, Source, ProcessingResult *)

NilImg == [isNil |-> TRUE]
NilResult == [isNilResult |-> TRUE]
NoFrame == [none |-> TRUE]

\* A Source's reader yields `size` bytes of content `kind`, known by `name`.
MkSource(name, kind, size) ==
    [name |-> name, kind |-> kind, size |-> size, ContentType |-> ""]

\* rawBytes: the first n bytes of the source's content.
Bytes(src, n) == [name |-> src.name, kind |-> src.kind, len |-> n]

DetectFormat(data) ==
    IF data.len < MagicLen THEN "unknown"
    ELSE IF data.kind \in {"jpeg", "corrupt"} THEN "jpeg"
    ELSE "unknown"

contentTypeToFormat(ct) ==
    IF ct \in {"image/jpeg", "image/jpg"} THEN "jpeg"
    ELSE IF ct = "image/png" THEN "png"
    ELSE IF ct = "image/webp" THEN "webp"
    ELSE "unknown"

\* Image is the decoded pixel buffer: <<>> is nil, otherwise the transforms
\* that produced it, oldest first.
MkImage(data, format) ==
    [Data |-> data, Format |-> format, Image |-> <<>>, Meta |-> [Width |-> 0],
     OriginalSize |-> data.len]

\* Formats with a decoder registered by imageprocessor.New.
RegisteredDecoders == {"jpeg", "png", "webp"}

-----------------------------------------------------------------------------
(* Steps.  Execute is a relation: the set of (result, error) pairs a call can *)
(* return for a given scope error and input.                                  *)

DecodeStep == [name |-> "decode"]
FormatStep == [name |-> "format"]
CustomStep == [name |-> "custom"]

Out(img, err) == [img |-> img, err |-> err]

\* pipeline.DecodeStep.Execute with the JPEG decoder behind the registry.
DecodeExecute(ctxErr, img) ==
    IF img.Image # <<>> THEN {Out(img, NoErr)}
    ELSE IF img.Data.len = 0 THEN {Out(NilImg, New("decode", "decode", ErrEmptyInput))}
    ELSE IF img.Format \notin RegisteredDecoders
        THEN {Out(NilImg, New("decode", "decode", ErrUnsupportedFormat))}
    ELSE IF ctxErr # NoErr THEN {Out(NilImg, Wrap("decode", "jpeg.decode", ctxErr))}
    ELSE IF img.Data.kind # "jpeg"
        THEN {Out(NilImg, Wrap("decode", "jpeg.decode", Plain("invalid JPEG", 0)))}
    ELSE {Out([img EXCEPT !.Image = <<"decode">>, !.Meta.Width = SrcWidth], NoErr)}

\* pipeline.FormatStep.Execute: a shallow copy with the format changed.
FormatExecute(ctxErr, img) ==
    {Out([img EXCEPT !.Format = "png"], NoErr)}

\* A caller-supplied step: it may succeed with a new state, fail with a
\* retryable error or fail with a non-retryable one; att tells the errors of
\* successive attempts apart.
CustomExecute(ctxErr, img, att) ==
    { Out([img EXCEPT !.Image = Append(img.Image, "custom")], NoErr),
      Out(NilImg, Transient("custom", Plain("busy", att))),
      Out(NilImg, New("pipeline", "custom", Plain("broken", att))) }

\* Every built-in step dereferences its input; a nil input is a nil-pointer panic.
NilDeref == [kind |-> "panic"]

Execute(step, ctxErr, img, att) ==
    IF img = NilImg THEN {Out(NilImg, NilDeref)}
    ELSE IF step.name = "decode" THEN DecodeExecute(ctxErr, img)
    ELSE IF step.name = "format" THEN FormatExecute(ctxErr, img)
    ELSE CustomExecute(ctxErr, img, att)

-----------------------------------------------------------------------------
(* utils/streaming.go: readers and DrainReader *)

Min(a, b) == IF a < b THEN a ELSE b

\* bytes.Reader.Read into a buffer of k bytes, pos bytes already consumed.
SrcRead(src, pos, k) ==
    IF pos >= src.size THEN [n |-> 0, err |-> EOF]
    ELSE [n |-> Min(k, src.size - pos), err |-> NoErr]

\* a LimitedReader that ends the stream quietly at the ceiling
LimitedReadMut(src, ln, max, k) ==
    IF ln >= max /\ max > 0 THEN [n |-> 0, err |-> EOF]
    ELSE SrcRead(src, ln, IF max > 0 /\ k > max - ln THEN max - ln ELSE k)

\* LimitedReader.Read: ln is LimitedReader.n, the bytes handed out so far.
LimitedRead(src, ln, max, k) ==
    IF ln >= max /\ max > 0 THEN [n |-> 0, err |-> ErrUnexpectedEOF]
    ELSE SrcRead(src, ln, IF max > 0 /\ k > max - ln THEN max - ln ELSE k)

ChunkSizeOf(c) == IF c.ChunkSize <= 0 THEN DefaultChunkSize ELSE c.ChunkSize

\* One r.Read(chunk) of DrainReader on the reader Process hands it.
DrainRead(c, src, n) ==
    IF c.MaxImageBytes > 0
        THEN LimitedRead(src, n, c.MaxImageBytes, ChunkSizeOf(c))
        ELSE SrcRead(src, n, ChunkSizeOf(c))

-----------------------------------------------------------------------------
(* Scopes *)

\* a scope that never reports cancellation
CtxErrMut(t) == NoErr

\* ctx.Err() of the scope goroutine t runs under: the caller's scope, or the
\* deadline-scoped child processJob derives from it.
CtxErr(t) ==
    IF deadline[t] = "expired" THEN DeadlineExceeded
    ELSE IF ctxState[frame[t].ctx] = "canceled" THEN Canceled
    ELSE NoErr

Running == ~panicked

-----------------------------------------------------------------------------
(* core/processor.go: Processor.Process, one action per program point.     *)
(* pc: "call" -> "drain" -> "loop" -> "retry" (-> "wait") -> "after" ->    *)
(* "loop" ... -> "ret".                                                    *)

NoLocals ==
    [n |-> 0, idx |-> 0, i |-> 0, current |-> NilImg, result |-> NilImg,
     err |-> NoErr, timings |-> {}]

StepsOf(t) == frame[t].steps
StepAt(t) == StepsOf(t)[lv[t].idx]

\* return from Process with the pair (result, err)
Return(t, result, err) ==
    /\ pc' = [pc EXCEPT ![t] = "ret"]
    /\ ret' = [ret EXCEPT ![t] = [Result |-> result, Err |-> err]]
    /\ returned' = returned + 1

BeforeEvents(name, img) ==
    [k \in 1..Len(hooks) |-> [ev |-> "before", hook |-> hooks[k], name |-> name, img |-> img]]

\* a Processor that notifies its hooks in reverse order after a step
AfterEventsMut(name, img, err) ==
    [k \in 1..Len(hooks) |->
        [ev |-> "after", hook |-> hooks[Len(hooks) + 1 - k], name |-> name,
         img |-> img, err |-> err]]

AfterEvents(name, img, err) ==
    [k \in 1..Len(hooks) |->
        [ev |-> "after", hook |-> hooks[k], name |-> name, img |-> img, err |-> err]]

ExecEvent(idx, name, att, in, o) ==
    [ev |-> "exec", idx |-> idx, name |-> name, att |-> att, in |-> in,
     out |-> o.img, err |-> o.err]

\* processor.go:96-100: the empty step list is refused before anything is read.
ProcessEntry(t) ==
    /\ Running
    /\ pc[t] = "call"
    /\ IF Len(StepsOf(t)) = 0
         THEN /\ Return(t, NilResult, New("pipeline", "process", ErrEmptyInput))
              /\ lv' = lv
         ELSE /\ pc' = [pc EXCEPT ![t] = "drain"]
              /\ lv' = [lv EXCEPT ![t] = NoLocals]
              /\ UNCHANGED <<ret, returned>>
    /\ UNCHANGED <<cfg, hooks, processedCount, errorCount, ctxState, frame, log,
                   deadline, panicked, poolVars, otherVars>>

\* processor.go:102-125 with one iteration of DrainReader's loop
\* (streaming.go:39-55): scope check, one Read, then EOF / error / again.
ProcessDrain(t) ==
    /\ Running
    /\ pc[t] = "drain"
    /\ LET cerr == CtxErr(t)
           r == DrainRead(cfg, frame[t].src, lv[t].n)
           raw == Bytes(frame[t].src, lv[t].n + r.n)
           format == IF frame[t].src.ContentType # ""
                        THEN contentTypeToFormat(frame[t].src.ContentType)
                        ELSE DetectFormat(raw)
       IN IF cerr # NoErr
            THEN /\ Return(t, NilResult, Wrap("decode", "process.drain", cerr))
                 /\ lv' = lv
          ELSE IF r.err = EOF
            THEN /\ pc' = [pc EXCEPT ![t] = "loop"]
                 /\ lv' = [lv EXCEPT ![t].n = raw.len, ![t].idx = 1,
                                      ![t].current = MkImage(raw, format)]
                 /\ UNCHANGED <<ret, returned>>
          ELSE IF r.err # NoErr
            THEN /\ Return(t, NilResult, Wrap("decode", "process.drain", r.err))
                 /\ lv' = lv
          ELSE /\ lv' = [lv EXCEPT ![t].n = raw.len]
               /\ UNCHANGED <<pc, ret, returned>>
    /\ UNCHANGED <<cfg, hooks, processedCount, errorCount, ctxState, frame, log,
                   deadline, panicked, poolVars, otherVars>>

\* processor.go:130-136: the head of the step loop, for a step that remains.
ProcessStepHead(t) ==
    /\ Running
    /\ pc[t] = "loop"
    /\ lv[t].idx <= Len(StepsOf(t))
    /\ LET cerr == CtxErr(t)
           name == StepAt(t).name
       IN IF cerr # NoErr
            THEN /\ errorCount' = errorCount + 1
                 /\ Return(t, NilResult, Wrap("pipeline", name, cerr))
                 /\ UNCHANGED <<lv, log>>
            ELSE /\ log' = [log EXCEPT ![t] = @ \o BeforeEvents(name, lv[t].current)]
                 /\ lv' = [lv EXCEPT ![t].i = 0, ![t].result = NilImg, ![t].err = NoErr]
                 /\ pc' = [pc EXCEPT ![t] = "retry"]
                 /\ UNCHANGED <<errorCount, ret, returned>>
    /\ UNCHANGED <<cfg, hooks, processedCount, ctxState, frame, deadline, panicked, poolVars, otherVars>>

\* a retry loop that stops one attempt short
MoreAttemptsMut(i, maxRetries) == i < maxRetries

\* processor.go:272: the loop condition of runWithRetry.
MoreAttempts(i, maxRetries) == i <= maxRetries

\* processor.go:274: an attempt ends the policy when it succeeded or failed
\* with an error that is not retryable.
AttemptIsFinal(err) == err = NoErr \/ ~IsRetryable(err)

\* processor.go:273-283: one attempt of the step under the retry policy.
RetryAttempt(t) ==
    /\ Running
    /\ pc[t] = "retry"
    /\ MoreAttempts(lv[t].i, cfg.MaxRetries)
    /\ \E o \in Execute(StepAt(t), CtxErr(t), lv[t].current, lv[t].i + 1) :
         /\ log' = [log EXCEPT ![t] =
                Append(@, ExecEvent(lv[t].idx, StepAt(t).name, lv[t].i + 1, lv[t].current, o))]
         /\ IF o.err = NilDeref
              THEN /\ panicked' = TRUE
                   /\ pc' = [pc EXCEPT ![t] = "panic"]
                   /\ lv' = lv
              ELSE /\ panicked' = panicked
                   /\ lv' = [lv EXCEPT ![t].result = o.img, ![t].err = o.err,
                                        ![t].i = IF AttemptIsFinal(o.err) \/ @ < cfg.MaxRetries
                                                   THEN @ ELSE @ + 1]
                   /\ pc' = [pc EXCEPT ![t] =
                         IF AttemptIsFinal(o.err) THEN "after"
                         ELSE IF lv[t].i < cfg.MaxRetries THEN "wait"
                         ELSE "retry"]
    /\ UNCHANGED <<cfg, hooks, poolVars, counterVars,
                   ctxState, frame, ret, deadline, otherVars>>

\* processor.go:285: the loop of runWithRetry ran out; the last pair is returned.
RetryExhausted(t) ==
    /\ Running
    /\ pc[t] = "retry"
    /\ ~MoreAttempts(lv[t].i, cfg.MaxRetries)
    /\ pc' = [pc EXCEPT ![t] = "after"]
    /\ UNCHANGED <<cfg, hooks, counterVars, ctxState, frame, lv, ret, log, deadline,
                   panicked, poolVars, otherVars>>

\* a wait that sits out the delay whatever the scope says
WaitCancelledMut(t) ==
    /\ Running
    /\ pc[t] = "wait"
    /\ CtxErr(t) # NoErr
    /\ lv' = [lv EXCEPT ![t].i = @ + 1]
    /\ pc' = [pc EXCEPT ![t] = "retry"]
    /\ UNCHANGED <<cfg, hooks, counterVars, ctxState, frame, ret, log, deadline,
                   panicked, poolVars, otherVars>>

\* processor.go:279-280: the retry wait is preempted by the scope.
WaitCancelled(t) ==
    /\ Running
    /\ pc[t] = "wait"
    /\ CtxErr(t) # NoErr
    /\ lv' = [lv EXCEPT ![t].result = NilImg,
                        ![t].err = Wrap("pipeline", StepAt(t).name, CtxErr(t))]
    /\ pc' = [pc EXCEPT ![t] = "after"]
    /\ UNCHANGED <<cfg, hooks, counterVars, ctxState, frame, ret, log, deadline,
                   panicked, poolVars, otherVars>>

\* processor.go:281: the retry delay elapsed; the loop goes round.
WaitElapsed(t) ==
    /\ Running
    /\ pc[t] = "wait"
    /\ lv' = [lv EXCEPT ![t].i = @ + 1]
    /\ pc' = [pc EXCEPT ![t] = "retry"]
    /\ UNCHANGED <<cfg, hooks, counterVars, ctxState, frame, ret, log, deadline,
                   panicked, poolVars, otherVars>>

\* a step loop that keeps feeding the ingested state
NextInputMut(current, next) == current

\* processor.go:145: the state handed to the next step.
NextInput(current, next) == next

\* processor.go:141: a step error ends the call.
StepFailed(err) == err # NoErr

\* processor.go:138-146: after runWithRetry returned.
ProcessAfterStep(t) ==
    /\ Running
    /\ pc[t] = "after"
    /\ log' = [log EXCEPT ![t] = @ \o AfterEvents(StepAt(t).name, lv[t].result, lv[t].err)]
    /\ IF StepFailed(lv[t].err)
         THEN /\ errorCount' = errorCount + 1
              /\ Return(t, NilResult, lv[t].err)
              /\ lv' = [lv EXCEPT ![t].timings = @ \cup {StepAt(t).name}]
         ELSE /\ lv' = [lv EXCEPT ![t].timings = @ \cup {StepAt(t).name},
                                   ![t].current = NextInput(@, lv[t].result),
                                   ![t].idx = @ + 1]
              /\ pc' = [pc EXCEPT ![t] = "loop"]
              /\ UNCHANGED <<errorCount, ret, returned>>
    /\ UNCHANGED <<cfg, hooks, processedCount, ctxState, frame, deadline, panicked, poolVars, otherVars>>

\* processor.go:148-155: every step succeeded.
ProcessSuccess(t) ==
    /\ Running
    /\ pc[t] = "loop"
    /\ lv[t].idx > Len(StepsOf(t))
    /\ processedCount' = processedCount + 1
    /\ Return(t, [Primary |-> lv[t].current, StepTimings |-> lv[t].timings], NoErr)
    /\ UNCHANGED <<cfg, hooks, errorCount, ctxState, frame, lv, log, deadline,
                   panicked, poolVars, otherVars>>

\* The caller cancels scope c (context.CancelFunc); it may do so at any time.
Cancel(c) ==
    /\ Running
    /\ ctxState[c] = "none"
    /\ ctxState' = [ctxState EXCEPT ![c] = "canceled"]
    /\ UNCHANGED <<cfg, hooks, counterVars, procVars, panicked, poolVars, otherVars>>

ProcessStep(t) ==
    \/ ProcessEntry(t)
    \/ ProcessDrain(t)
    \/ ProcessStepHead(t)
    \/ RetryAttempt(t)
    \/ RetryExhausted(t)
    \/ WaitCancelled(t)
    \/ WaitElapsed(t)
    \/ ProcessAfterStep(t)
    \/ ProcessSuccess(t)

-----------------------------------------------------------------------------
(* pipeline.Pipeline: Run and runStep.                                     *)
(* pc: "run.loop" -> "run.attempt" (-> "run.wait") -> "run.done" ->        *)
(* "run.loop" ... -> "run.ret".                                            *)

PStepAt(t) == pipeline.steps[lv[t].idx]

PBeforeEvents(name, img) ==
    [k \in 1..Len(pipeline.hooks) |->
        [ev |-> "before", hook |-> pipeline.hooks[k], name |-> name, img |-> img]]

PAfterEvents(name, img, err) ==
    [k \in 1..Len(pipeline.hooks) |->
        [ev |-> "after", hook |-> pipeline.hooks[k], name |-> name, img |-> img, err |-> err]]

\* return from Run with (img, timings, err)
RunReturn(t, img, err) ==
    /\ pc' = [pc EXCEPT ![t] = "run.ret"]
    /\ ret' = [ret EXCEPT ![t] =
            [Result |-> [Primary |-> img, StepTimings |-> lv'[t].timings], Err |-> err]]

\* Run, lines 45-46.
RunEntry(t) ==
    /\ Running
    /\ pc[t] = "run.call"
    /\ lv' = [lv EXCEPT ![t] = [NoLocals EXCEPT !.idx = 1, !.current = frame[t].img]]
    /\ pc' = [pc EXCEPT ![t] = "run.loop"]
    /\ UNCHANGED <<cfg, hooks, counterVars, ctxState, frame, ret, log, deadline,
                   panicked, poolVars, otherVars>>

\* Run, lines 48-53, and the head of runStep, lines 65-73.
RunStepHead(t) ==
    /\ Running
    /\ pc[t] = "run.loop"
    /\ lv[t].idx <= Len(pipeline.steps)
    /\ LET cerr == CtxErr(t)
           name == PStepAt(t).name
       IN IF cerr # NoErr
            THEN /\ lv' = lv
                 /\ RunReturn(t, NilImg, Wrap("pipeline", name, cerr))
                 /\ log' = log
            ELSE /\ log' = [log EXCEPT ![t] = @ \o PBeforeEvents(name, lv[t].current)]
                 /\ lv' = [lv EXCEPT ![t].i = 0, ![t].result = NilImg, ![t].err = NoErr]
                 /\ pc' = [pc EXCEPT ![t] = "run.attempt"]
                 /\ ret' = ret
    /\ UNCHANGED <<cfg, hooks, counterVars, ctxState, frame, deadline, panicked, poolVars, otherVars>>

\* runStep, lines 73-74: attempts := p.maxRetries + 1; i < attempts.
PMoreAttempts(i, maxRetries) == i < maxRetries + 1

\* runStep, lines 79-84: the attempt that ends the loop.
PAttemptIsFinal(err, i, maxRetries) ==
    err = NoErr \/ ~IsRetryable(err) \/ i = (maxRetries + 1) - 1

\* runStep, lines 74-84: one attempt.
RunAttempt(t) ==
    /\ Running
    /\ pc[t] = "run.attempt"
    /\ PMoreAttempts(lv[t].i, pipeline.maxRetries)
    /\ \E o \in Execute(PStepAt(t), CtxErr(t), lv[t].current, lv[t].i + 1) :
         /\ log' = [log EXCEPT ![t] =
                Append(@, ExecEvent(lv[t].idx, PStepAt(t).name, lv[t].i + 1, lv[t].current, o))]
         /\ IF o.err = NilDeref
              THEN /\ panicked' = TRUE
                   /\ pc' = [pc EXCEPT ![t] = "panic"]
                   /\ lv' = lv
              ELSE /\ panicked' = panicked
                   /\ lv' = [lv EXCEPT ![t].result = o.img, ![t].err = o.err]
                   /\ pc' = [pc EXCEPT ![t] =
                         IF PAttemptIsFinal(o.err, lv[t].i, pipeline.maxRetries)
                            THEN "run.done" ELSE "run.wait"]
    /\ UNCHANGED <<cfg, hooks, poolVars, counterVars,
                   ctxState, frame, ret, deadline, otherVars>>

\* runStep, line 74, when the loop condition is false on entry.
RunNoAttempt(t) ==
    /\ Running
    /\ pc[t] = "run.attempt"
    /\ ~PMoreAttempts(lv[t].i, pipeline.maxRetries)
    /\ pc' = [pc EXCEPT ![t] = "run.done"]
    /\ UNCHANGED <<cfg, hooks, counterVars, ctxState, frame, lv, ret, log, deadline,
                   panicked, poolVars, otherVars>>

\* runStep, lines 87-89: the wait is preempted; result keeps the last attempt's.
RunWaitCancelled(t) ==
    /\ Running
    /\ pc[t] = "run.wait"
    /\ CtxErr(t) # NoErr
    /\ lv' = [lv EXCEPT ![t].err = Wrap("pipeline", PStepAt(t).name, CtxErr(t))]
    /\ pc' = [pc EXCEPT ![t] = "run.done"]
    /\ UNCHANGED <<cfg, hooks, counterVars, ctxState, frame, ret, log, deadline,
                   panicked, poolVars, otherVars>>

\* runStep, line 90: the delay elapsed.
RunWaitElapsed(t) ==
    /\ Running
    /\ pc[t] = "run.wait"
    /\ lv' = [lv EXCEPT ![t].i = @ + 1]
    /\ pc' = [pc EXCEPT ![t] = "run.attempt"]
    /\ UNCHANGED <<cfg, hooks, counterVars, ctxState, frame, ret, log, deadline,
                   panicked, poolVars, otherVars>>

\* Run, line 58: the state handed to the next step.
PNextInput(current, result) == result

\* runStep, lines 94-96, then Run, lines 54-58.
RunStepDone(t) ==
    /\ Running
    /\ pc[t] = "run.done"
    /\ log' = [log EXCEPT ![t] = @ \o PAfterEvents(PStepAt(t).name, lv[t].result, lv[t].err)]
    /\ IF lv[t].err # NoErr
         THEN /\ lv' = [lv EXCEPT ![t].timings = @ \cup {PStepAt(t).name}]
              /\ RunReturn(t, NilImg, lv[t].err)
         ELSE /\ lv' = [lv EXCEPT ![t].timings = @ \cup {PStepAt(t).name},
                                   ![t].current = PNextInput(@, lv[t].result),
                                   ![t].idx = @ + 1]
              /\ pc' = [pc EXCEPT ![t] = "run.loop"]
              /\ ret' = ret
    /\ UNCHANGED <<cfg, hooks, counterVars, ctxState, frame, deadline, panicked, poolVars, otherVars>>

\* Run, line 60.
RunFinish(t) ==
    /\ Running
    /\ pc[t] = "run.loop"
    /\ lv[t].idx > Len(pipeline.steps)
    /\ lv' = lv
    /\ RunReturn(t, lv[t].current, NoErr)
    /\ UNCHANGED <<cfg, hooks, counterVars, ctxState, frame, log, deadline,
                   panicked, poolVars, otherVars>>

PipelineStep(t) ==
    \/ RunEntry(t)
    \/ RunStepHead(t)
    \/ RunAttempt(t)
    \/ RunNoAttempt(t)
    \/ RunWaitCancelled(t)
    \/ RunWaitElapsed(t)
    \/ RunStepDone(t)
    \/ RunFinish(t)

-----------------------------------------------------------------------------
(* Inputs *)

SeqsUpTo(S, n) == UNION {[1..k -> S] : k \in 0..n}

StepSet == {DecodeStep, FormatStep, CustomStep}
StepLists == SeqsUpTo(StepSet, MaxSteps)

Sources ==
    {MkSource(0, k, n) : k \in {"jpeg", "junk"}, n \in {0, MagicLen, MagicLen + 1}}

\* config.Default() with the given fields set by the caller.
MkConfig(workers, queue, timeout, retries, maxBytes, chunk) ==
    [WorkerCount |-> workers, QueueSize |-> queue, JobTimeout |-> timeout,
     MaxRetries |-> retries, MaxImageBytes |-> maxBytes, ChunkSize |-> chunk,
     DefaultQuality |-> 85,
     AdaptiveCompression |-> [Enabled |-> FALSE, MinQuality |-> 30, MaxQuality |-> 95]]

MkFrame(ctx, src, steps) == [ctx |-> ctx, src |-> src, steps |-> steps]

NoBatch == [none |-> TRUE]
NoVariants == [none |-> TRUE]
NoRegistry == [none |-> TRUE]

\* No client of the worker pool.
InitNoPool ==
    /\ jobs = <<>>
    /\ submitted = <<>>
    /\ launched = 0
    /\ curJob = <<>>
    /\ jobState = <<>>
    /\ lifeCalls = [made |-> 0, starts |-> 0, stops |-> 0]
    /\ chans = <<>>
    /\ received = <<>>

\* The state of a Processor after core.New, before any goroutine runs.
InitProcessor ==
    /\ jobQueue = <<>>
    /\ shutdown = "open"
    /\ once = "idle"
    /\ wg = 0
    /\ processedCount = 0
    /\ errorCount = 0
    /\ panicked = FALSE
    /\ returned = 0

-----------------------------------------------------------------------------
(* SpecProcess: one goroutine of the caller, which either calls             *)
(* Processor.Process or runs a standalone Pipeline.                         *)

Callers == {<<"caller", 1>>}

NoPipeline == [none |-> TRUE]
NoRet == [Result |-> NilResult, Err |-> NoErr]

RunFrame(ctx, img) == [ctx |-> ctx, img |-> img]

\* An ImageData the caller built from the whole content of a source.
ImageOf(src) == MkImage(Bytes(src, src.size), DetectFormat(Bytes(src, src.size)))

InitGoroutines(T) ==
    /\ lv = [t \in T |-> NoLocals]
    /\ ret = [t \in T |-> NoRet]
    /\ log = [t \in T |-> <<>>]
    /\ deadline = [t \in T |-> "off"]

InitCallProcess ==
    /\ cfg \in {MkConfig(1, 1, 0, r, m, c) :
                  r \in -1..MaxRetriesBound, m \in {0, MagicLen}, c \in {0, MagicLen - 1}}
    /\ hooks = <<"h1", "h2">>
    /\ pc = [t \in Callers |-> "call"]
    /\ frame \in [Callers -> {MkFrame("ctx", s, l) : s \in Sources, l \in StepLists}]
    /\ pipeline = NoPipeline

InitCallRun ==
    /\ cfg = MkConfig(1, 1, 0, 0, 0, 0)
    /\ hooks = <<>>
    /\ pc = [t \in Callers |-> "run.call"]
    /\ frame \in [Callers -> {RunFrame("ctx", ImageOf(s)) : s \in Sources}]
    /\ pipeline \in {[steps |-> l, hooks |-> <<"h1", "h2">>, maxRetries |-> r] :
                        l \in StepLists, r \in -1..MaxRetriesBound}

InitProcess ==
    /\ InitProcessor
    /\ ctxState = [c \in {"ctx"} |-> "none"]
    /\ InitGoroutines(Callers)
    /\ InitNoPool
    /\ batch = NoBatch
    /\ variants = NoVariants
    /\ registry = NoRegistry
    /\ (InitCallProcess \/ InitCallRun)

NextProcess ==
    \/ \E t \in Callers : ProcessStep(t)
    \/ \E t \in Callers : PipelineStep(t)
    \/ \E c \in DOMAIN ctxState : Cancel(c)

SpecProcess == InitProcess /\ [][NextProcess]_vars

-----------------------------------------------------------------------------
(* core/processor.go: the worker pool (New, Start, Stop, Submit, worker,    *)
(* processJob).                                                             *)

Workers == {<<"worker", i>> : i \in 1..NumCPU}
Lifecyclers == {<<"life", 1>>, <<"life", 2>>}
JobIds == 1..MaxJobs


\* a Start that launches one worker fewer
WorkerCountOfMut(c) == c.WorkerCount - 1

\* New, lines 44-47 and Start, lines 76-79.
WorkerCountOf(c) == IF c.WorkerCount <= 0 THEN NumCPU ELSE c.WorkerCount

\* New, lines 48-51 and 55: the capacity of jobQueue.
QueueCapOf(c) == IF c.QueueSize <= 0 THEN DefaultQueueSize ELSE c.QueueSize

MkJob(id, ctx, src, steps, ch) ==
    [ID |-> id, Ctx |-> ctx, Source |-> src, Steps |-> steps, ResultCh |-> ch]

\* a result tuple that carries the id of the job before
MkJobResultMut(id, result, err) == [JobID |-> id - 1, Result |-> result, Err |-> err]

\* processor.go:261: JobResult{JobID: job.ID, Result: result, Err: err}
MkJobResult(id, result, err) == [JobID |-> id, Result |-> result, Err |-> err]

\* capacity of the result channel the client made: make(chan core.JobResult, 1)
ResultChCap == 1

\* a Submit whose send case is always ready
CanEnqueueMut(q, c) == TRUE

\* Submit, lines 160-161: the send case of the select can proceed.
CanEnqueue(q, c) == Len(q) < QueueCapOf(c)

\* A Submit that sends without the default case of the select.
SubmitBlocking(j) ==
    /\ Running
    /\ j = Len(submitted) + 1
    /\ j \in JobIds
    /\ Len(jobQueue) < QueueCapOf(cfg)
    /\ jobQueue' = Append(jobQueue, jobs[j])
    /\ jobState' = [jobState EXCEPT ![j] = "queued"]
    /\ submitted' = Append(submitted, NoErr)
    /\ UNCHANGED <<cfg, hooks, counterVars, ctxState, procVars, panicked, shutdown, once,
                   wg, jobs, launched, curJob, lifeCalls, chans, received, otherVars>>

\* The client calls Submit with its next job (processor.go:159-166).
Submit(j) ==
    /\ Running
    /\ j = Len(submitted) + 1
    /\ j \in JobIds
    /\ IF CanEnqueue(jobQueue, cfg)
         THEN /\ jobQueue' = Append(jobQueue, jobs[j])
              /\ jobState' = [jobState EXCEPT ![j] = "queued"]
              /\ submitted' = Append(submitted, NoErr)
         ELSE /\ jobQueue' = jobQueue
              /\ jobState' = [jobState EXCEPT ![j] = "rejected"]
              /\ submitted' = Append(submitted, New("pipeline", "submit", ErrWorkerPoolFull))
    /\ UNCHANGED <<cfg, hooks, counterVars, ctxState, procVars, panicked, shutdown, once,
                   wg, jobs, launched, curJob, lifeCalls, chans, received, otherVars>>

CallsLeft == lifeCalls.made < MaxLifeCalls

\* a Start without the once guard
OnceFirstMut(o) == TRUE

\* Start, line 75: sync.Once lets the first caller run the function.
OnceFirst(o) == o = "idle"

\* A goroutine calls Start (processor.go:74-75): the first caller runs the
\* launch loop, a later one waits in once.Do until the first has finished.
StartCall(l) ==
    /\ Running
    /\ pc[l] = "idle"
    /\ CallsLeft
    /\ lifeCalls' = [lifeCalls EXCEPT !.made = @ + 1]
    /\ IF OnceFirst(once)
         THEN /\ once' = "running"
              /\ pc' = [pc EXCEPT ![l] = "start.loop"]
              /\ lv' = [lv EXCEPT ![l].i = 0]
         ELSE /\ once' = once
              /\ pc' = [pc EXCEPT ![l] = "start.blocked"]
              /\ lv' = lv
    /\ UNCHANGED <<cfg, hooks, counterVars, ctxState, frame, ret, log, deadline, panicked,
                   jobQueue, shutdown, wg, jobs, submitted, launched, curJob, jobState,
                   chans, received, otherVars>>

\* Start, lines 80-83: wg.Add(1); go p.worker().
StartLaunch(l) ==
    /\ Running
    /\ pc[l] = "start.loop"
    /\ lv[l].i < WorkerCountOf(cfg)
    /\ wg' = wg + 1
    /\ launched' = launched + 1
    /\ lv' = [lv EXCEPT ![l].i = @ + 1]
    /\ pc' = [pc EXCEPT ![<<"worker", launched + 1>>] = "select"]
    /\ UNCHANGED <<cfg, hooks, counterVars, ctxState, frame, ret, log, deadline, panicked,
                   jobQueue, shutdown, once, jobs, submitted, curJob, jobState, lifeCalls,
                   chans, received, otherVars>>

\* Start, lines 80 and 84-85: the loop is over, once.Do and Start return.
StartDone(l) ==
    /\ Running
    /\ pc[l] = "start.loop"
    /\ lv[l].i >= WorkerCountOf(cfg)
    /\ once' = "done"
    /\ pc' = [pc EXCEPT ![l] = "idle"]
    /\ lifeCalls' = [lifeCalls EXCEPT !.starts = @ + 1]
    /\ UNCHANGED <<cfg, hooks, counterVars, ctxState, frame, lv, ret, log, deadline,
                   panicked, jobQueue, shutdown, wg, jobs, submitted, launched, curJob,
                   jobState, chans, received, otherVars>>

\* Start, line 75, for a caller that was not first: once.Do returns once the
\* first call has completed.
StartReturn(l) ==
    /\ Running
    /\ pc[l] = "start.blocked"
    /\ once = "done"
    /\ pc' = [pc EXCEPT ![l] = "idle"]
    /\ lifeCalls' = [lifeCalls EXCEPT !.starts = @ + 1]
    /\ UNCHANGED <<cfg, hooks, counterVars, ctxState, frame, lv, ret, log, deadline,
                   panicked, jobQueue, shutdown, once, wg, jobs, submitted, launched,
                   curJob, jobState, chans, received, otherVars>>

\* Stop, line 89: close(p.shutdown); closing a closed channel panics.
StopCall(l) ==
    /\ Running
    /\ pc[l] = "idle"
    /\ CallsLeft
    /\ lifeCalls' = [lifeCalls EXCEPT !.made = @ + 1]
    /\ IF shutdown = "closed"
         THEN /\ panicked' = TRUE
              /\ pc' = [pc EXCEPT ![l] = "panic"]
              /\ shutdown' = shutdown
         ELSE /\ panicked' = panicked
              /\ pc' = [pc EXCEPT ![l] = "stop.wait"]
              /\ shutdown' = "closed"
    /\ UNCHANGED <<cfg, hooks, counterVars, ctxState, frame, lv, ret, log, deadline,
                   jobQueue, once, wg, jobs, submitted, launched, curJob, jobState,
                   chans, received, otherVars>>

\* a Stop that does not wait
WaitGroupDoneMut(n) == TRUE

\* Stop, line 90: wg.Wait() returns when the counter is zero.
WaitGroupDone(n) == n = 0

\* Stop, lines 90-91: the workers are gone, Stop returns.
StopReturn(l) ==
    /\ Running
    /\ pc[l] = "stop.wait"
    /\ WaitGroupDone(wg)
    /\ pc' = [pc EXCEPT ![l] = "idle"]
    /\ lifeCalls' = [lifeCalls EXCEPT !.stops = @ + 1]
    /\ UNCHANGED <<cfg, hooks, counterVars, ctxState, frame, lv, ret, log, deadline,
                   panicked, jobQueue, shutdown, once, wg, jobs, submitted, launched,
                   curJob, jobState, chans, received, otherVars>>

\* worker, lines 237-239 and 235: the shutdown case of the select.
WorkerExit(w) ==
    /\ Running
    /\ pc[w] = "select"
    /\ shutdown = "closed"
    /\ pc' = [pc EXCEPT ![w] = "exited"]
    /\ wg' = wg - 1
    /\ UNCHANGED <<cfg, hooks, counterVars, ctxState, frame, lv, ret, log, deadline,
                   panicked, jobQueue, shutdown, once, jobs, submitted, launched, curJob,
                   jobState, lifeCalls, chans, received, otherVars>>

\* a worker that runs every job under the job's own scope, whatever JobTimeout is
WorkerDequeueMut(w) ==
    /\ Running
    /\ pc[w] = "select"
    /\ jobQueue # <<>>
    /\ LET job == Head(jobQueue)
       IN /\ jobQueue' = Tail(jobQueue)
          /\ curJob' = [curJob EXCEPT ![w] = job.ID]
          /\ jobState' = [jobState EXCEPT ![job.ID] = "running"]
          /\ frame' = [frame EXCEPT ![w] = MkFrame(job.Ctx, job.Source, job.Steps)]
          /\ pc' = [pc EXCEPT ![w] = "call"]
    /\ UNCHANGED <<cfg, hooks, counterVars, ctxState, lv, ret, log, deadline, panicked,
                   shutdown, once, wg, jobs, submitted, launched, lifeCalls, chans,
                   received, otherVars>>

\* worker, lines 240-244, and processJob, lines 250-258: the job case of the
\* select, the deadline derived from the job's scope, the call of Process.
WorkerDequeue(w) ==
    /\ Running
    /\ pc[w] = "select"
    /\ jobQueue # <<>>
    /\ LET job == Head(jobQueue)
       IN /\ jobQueue' = Tail(jobQueue)
          /\ curJob' = [curJob EXCEPT ![w] = job.ID]
          /\ jobState' = [jobState EXCEPT ![job.ID] = "running"]
          /\ frame' = [frame EXCEPT ![w] = MkFrame(job.Ctx, job.Source, job.Steps)]
          /\ deadline' = [deadline EXCEPT ![w] =
                IF cfg.JobTimeout > 0 /\ ctxState[job.Ctx] = "none" THEN "armed" ELSE "off"]
          /\ pc' = [pc EXCEPT ![w] = "call"]
    /\ UNCHANGED <<cfg, hooks, counterVars, ctxState, lv, ret, log, panicked, shutdown, once,
                   wg, jobs, submitted, launched, lifeCalls, chans, received, otherVars>>

\* processJob, lines 252-256: the deadline of the derived scope passes.
Expire(w) ==
    /\ Running
    /\ deadline[w] = "armed"
    /\ ctxState[frame[w].ctx] = "none"
    /\ deadline' = [deadline EXCEPT ![w] = "expired"]
    /\ UNCHANGED <<cfg, hooks, counterVars, ctxState, pc, frame, lv, ret, log, panicked,
                   poolVars, otherVars>>

\* processJob, lines 259-262 for a job without result destination.
WorkerFinish(w) ==
    /\ Running
    /\ pc[w] = "ret"
    /\ jobs[curJob[w]].ResultCh = "nil"
    /\ jobState' = [jobState EXCEPT ![curJob[w]] = "done"]
    /\ deadline' = [deadline EXCEPT ![w] = "off"]
    /\ pc' = [pc EXCEPT ![w] = "select"]
    /\ frame' = [frame EXCEPT ![w] = NoFrame]
    /\ lv' = [lv EXCEPT ![w] = NoLocals]
    /\ ret' = [ret EXCEPT ![w] = NoRet]
    /\ log' = [log EXCEPT ![w] = <<>>]
    /\ UNCHANGED <<cfg, hooks, counterVars, ctxState, panicked,
                   jobQueue, shutdown, once, wg, jobs, submitted, launched, curJob,
                   lifeCalls, chans, received, otherVars>>

\* processJob, lines 259-262: the blocking send job.ResultCh <- JobResult{...}.
WorkerDeliver(w) ==
    /\ Running
    /\ pc[w] = "ret"
    /\ jobs[curJob[w]].ResultCh # "nil"
    /\ LET ch == jobs[curJob[w]].ResultCh
       IN /\ Len(chans[ch]) < ResultChCap
          /\ chans' = [chans EXCEPT ![ch] =
                Append(@, MkJobResult(curJob[w], ret[w].Result, ret[w].Err))]
    /\ jobState' = [jobState EXCEPT ![curJob[w]] = "done"]
    /\ deadline' = [deadline EXCEPT ![w] = "off"]
    /\ pc' = [pc EXCEPT ![w] = "select"]
    /\ frame' = [frame EXCEPT ![w] = NoFrame]
    /\ lv' = [lv EXCEPT ![w] = NoLocals]
    /\ ret' = [ret EXCEPT ![w] = NoRet]
    /\ log' = [log EXCEPT ![w] = <<>>]
    /\ UNCHANGED <<cfg, hooks, counterVars, ctxState, panicked,
                   jobQueue, shutdown, once, wg, jobs, submitted, launched, curJob,
                   lifeCalls, received, otherVars>>

\* The client receives from a result channel; nothing obliges it to.
Receive(ch) ==
    /\ Running
    /\ chans[ch] # <<>>
    /\ received' = Append(received, Head(chans[ch]))
    /\ chans' = [chans EXCEPT ![ch] = Tail(@)]
    /\ UNCHANGED <<cfg, hooks, counterVars, ctxState, procVars, panicked, jobQueue,
                   shutdown, once, wg, jobs, submitted, launched, curJob, jobState,
                   lifeCalls, otherVars>>

PoolGoroutines == Workers \cup Lifecyclers

\* The jobs of the client: job 1 runs a step that may fail or be retried, the
\* others a step that succeeds; every third job is fire-and-forget, the others
\* share one result channel.
PoolSource == MkSource(0, "jpeg", MagicLen)
PoolSteps(j) == IF j = 1 THEN <<CustomStep>> ELSE <<FormatStep>>
PoolResultCh(j) == IF j % 3 = 0 THEN "nil" ELSE "ch"

InitPool ==
    /\ InitProcessor
    /\ cfg \in {MkConfig(w, 1, 1, 1, 0, 0) : w \in {0, 1}} \cup {MkConfig(1, 0, 0, 1, 0, 0)}
    /\ hooks = <<>>
    /\ ctxState = [c \in {"ctx"} |-> "none"]
    /\ InitGoroutines(PoolGoroutines)
    /\ pc = [t \in PoolGoroutines |-> IF t \in Workers THEN "unborn" ELSE "idle"]
    /\ frame = [t \in PoolGoroutines |-> NoFrame]
    /\ jobs = [j \in JobIds |-> MkJob(j, "ctx", PoolSource, PoolSteps(j), PoolResultCh(j))]
    /\ submitted = <<>>
    /\ launched = 0
    /\ curJob = [w \in Workers |-> 0]
    /\ jobState = [j \in JobIds |-> "new"]
    /\ lifeCalls = [made |-> 0, starts |-> 0, stops |-> 0]
    /\ chans = [ch \in {"ch"} |-> <<>>]
    /\ received = <<>>
    /\ batch = NoBatch
    /\ variants = NoVariants
    /\ registry = NoRegistry
    /\ pipeline = NoPipeline

NextPool ==
    \/ \E j \in JobIds : Submit(j)
    \/ \E l \in Lifecyclers : StartCall(l) \/ StartLaunch(l) \/ StartDone(l) \/ StartReturn(l)
    \/ \E l \in Lifecyclers : StopCall(l) \/ StopReturn(l)
    \/ \E w \in Workers : WorkerExit(w) \/ WorkerDequeue(w) \/ WorkerFinish(w) \/ WorkerDeliver(w)
    \/ \E w \in Workers : ProcessStep(w)
    \/ \E w \in Workers : Expire(w)
    \/ \E ch \in DOMAIN chans : Receive(ch)

Spec == InitPool /\ [][NextPool]_vars

\* Everything a launched worker goroutine does.
WorkerStep(w) ==
    \/ WorkerExit(w) \/ WorkerDequeue(w) \/ WorkerFinish(w) \/ WorkerDeliver(w)
    \/ ProcessStep(w)

\* Everything a goroutine calling Start or Stop does once inside the call.
LifecycleStep(l) == StartLaunch(l) \/ StartDone(l) \/ StartReturn(l) \/ StopReturn(l)

\* The Go scheduler runs every goroutine that can take a step; the client is
\* under no obligation to submit, to call Start or Stop, or to receive.
SpecFair ==
    /\ InitPool
    /\ [][NextPool]_vars
    /\ \A w \in Workers : WF_vars(WorkerStep(w))
    /\ \A l \in Lifecyclers : WF_vars(LifecycleStep(l))

-----------------------------------------------------------------------------
(* core/processor.go: Processor.Batch.  The caller's goroutine spawns one   *)
(* branch goroutine per source; each branch calls Process and stores the    *)
(* pair it got into the two slices.                                         *)

BatchCaller == <<"batch", 0>>
Branches == {<<"branch", i>> : i \in 1..MaxBatch}
BatchGoroutines == {BatchCaller} \cup Branches

\* processor.go:170-172: make([]*ProcessingResult, n), make([]error, n), var wg.
MkBatch(sources, steps) ==
    [sources |-> sources, steps |-> steps,
     results |-> [i \in 1..Len(sources) |-> NilResult],
     errs |-> [i \in 1..Len(sources) |-> NoErr],
     i |-> 0, wg |-> 0]

\* processor.go:174-176 and 183: wg.Add(1) and the go statement for the next
\* source; idx and s are passed by value.
BatchSpawn ==
    /\ Running
    /\ pc[BatchCaller] = "batch.loop"
    /\ batch.i < Len(batch.sources)
    /\ LET idx == batch.i + 1
           b == <<"branch", idx>>
       IN /\ batch' = [batch EXCEPT !.i = idx, !.wg = @ + 1]
          /\ pc' = [pc EXCEPT ![b] = "call"]
          /\ frame' = [frame EXCEPT ![b] = MkFrame("ctx", batch.sources[idx], batch.steps)]
    /\ UNCHANGED <<cfg, hooks, counterVars, ctxState, lv, ret, log, deadline, panicked,
                   poolVars, pipeline, variants, registry>>

\* processor.go:174: the range loop is over.
BatchLoopEnd ==
    /\ Running
    /\ pc[BatchCaller] = "batch.loop"
    /\ batch.i >= Len(batch.sources)
    /\ pc' = [pc EXCEPT ![BatchCaller] = "batch.wait"]
    /\ UNCHANGED <<cfg, hooks, counterVars, ctxState, frame, lv, ret, log, deadline,
                   panicked, poolVars, otherVars>>

\* branches that fill the slices in completion order
StoreIndexMut(idx) == Cardinality({b \in Branches : pc[b] = "stored"}) + 1

\* processor.go:179-180: the slot of the two slices a branch writes.
StoreIndex(idx) == idx

\* a branch that cancels the scope of the batch when its source failed
BranchStoreMut(b) ==
    /\ Running
    /\ pc[b] = "ret"
    /\ batch' = [batch EXCEPT !.results[b[2]] = ret[b].Result,
                              !.errs[b[2]] = ret[b].Err,
                              !.wg = @ - 1]
    /\ ctxState' = [c \in DOMAIN ctxState |->
                        IF ret[b].Err # NoErr THEN "canceled" ELSE ctxState[c]]
    /\ pc' = [pc EXCEPT ![b] = "stored"]
    /\ UNCHANGED <<cfg, hooks, counterVars, frame, lv, ret, log, deadline,
                   panicked, poolVars, pipeline, variants, registry>>

\* processor.go:177-181: Process has returned r, e; results[idx] = r,
\* errs[idx] = e, then the deferred wg.Done().
BranchStore(b) ==
    /\ Running
    /\ pc[b] = "ret"
    /\ batch' = [batch EXCEPT !.results[StoreIndex(b[2])] = ret[b].Result,
                              !.errs[StoreIndex(b[2])] = ret[b].Err,
                              !.wg = @ - 1]
    /\ pc' = [pc EXCEPT ![b] = "stored"]
    /\ UNCHANGED <<cfg, hooks, counterVars, ctxState, frame, lv, ret, log, deadline,
                   panicked, poolVars, pipeline, variants, registry>>

\* processor.go:183-184: wg.Wait() returns, Batch returns the two slices.
BatchReturn ==
    /\ Running
    /\ pc[BatchCaller] = "batch.wait"
    /\ batch.wg = 0
    /\ pc' = [pc EXCEPT ![BatchCaller] = "batch.ret"]
    /\ UNCHANGED <<cfg, hooks, counterVars, ctxState, frame, lv, ret, log, deadline,
                   panicked, poolVars, otherVars>>

\* The source lists of the caller: source i is named i, and is either a JPEG
\* or malformed content.
BatchSources ==
    UNION {{[i \in 1..n |-> MkSource(i, kinds[i], MagicLen)] :
                kinds \in [1..n -> {"jpeg", "junk"}]} : n \in 0..MaxBatch}

BatchStepLists == {<<DecodeStep>>, <<DecodeStep, CustomStep>>}

InitBatch ==
    /\ InitProcessor
    /\ cfg = MkConfig(1, 1, 0, 1, 0, 0)
    /\ hooks = <<>>
    /\ ctxState = [c \in {"ctx"} |-> "none"]
    /\ InitGoroutines(BatchGoroutines)
    /\ pc = [t \in BatchGoroutines |-> IF t = BatchCaller THEN "batch.loop" ELSE "unborn"]
    /\ frame = [t \in BatchGoroutines |-> NoFrame]
    /\ InitNoPool
    /\ batch \in {MkBatch(srcs, steps) : srcs \in BatchSources, steps \in BatchStepLists}
    /\ pipeline = NoPipeline
    /\ variants = NoVariants
    /\ registry = NoRegistry

NextBatch ==
    \/ BatchSpawn
    \/ BatchLoopEnd
    \/ \E b \in Branches : ProcessStep(b)
    \/ \E b \in Branches : BranchStore(b)
    \/ BatchReturn
    \/ \E c \in DOMAIN ctxState : Cancel(c)

SpecBatch == InitBatch /\ [][NextBatch]_vars

-----------------------------------------------------------------------------
(* Properties of the worker pool *)

Last(q) == q[Len(q)]
LaunchedWorkers == {<<"worker", i>> : i \in 1..launched}
MidJob(w) == pc[w] \notin {"unborn", "select", "exited"}
SubmitReturns == Len(submitted') = Len(submitted) + 1
StopReturns == lifeCalls'.stops = lifeCalls.stops + 1

\* C1: Submit never blocks: whatever the workers and the lifecycle calls are
\* doing, the client's next Submit can complete at once; with room in the queue
\* it appends the job and returns nil, with a full queue it returns the
\* worker-pool-full error and leaves the queue as it was
SubmitNeverBlocks ==
    /\ [](Running /\ Len(submitted) < MaxJobs => ENABLED Submit(Len(submitted) + 1))
    /\ [][SubmitReturns =>
            IF Len(jobQueue) < QueueCapOf(cfg)
              THEN /\ jobQueue' = Append(jobQueue, jobs[Len(submitted')])
                   /\ Last(submitted') = NoErr
              ELSE /\ jobQueue' = jobQueue
                   /\ Last(submitted').kind = "pe"
                   /\ Last(submitted').Err = ErrWorkerPoolFull]_vars

\* a Submit was accepted, a later one met the full queue while a worker was busy
SubmitNeverBlocksWitness ==
    /\ \E i, j \in DOMAIN submitted : i < j /\ submitted[i] = NoErr /\ submitted[j] # NoErr
    /\ \E w \in Workers : MidJob(w)
    /\ Len(jobQueue) = QueueCapOf(cfg)

\* C4: closing shutdown lets every idle worker exit; Stop returns only when
\* every worker launched so far has exited; a worker exits only from its
\* select, never between dequeuing a job and finishing it, and a job becomes
\* done only when Process has returned and, if it has a destination, its
\* result has been sent there
StopWaitsForWorkers ==
    /\ [](\A w \in Workers :
            Running /\ shutdown = "closed" /\ pc[w] = "select" => ENABLED WorkerExit(w))
    /\ [][StopReturns => \A w \in LaunchedWorkers : pc[w] = "exited"]_vars
    /\ [][\A w \in Workers : pc'[w] = "exited" /\ pc[w] # "exited" => pc[w] = "select"]_vars
    /\ [][\A w \in Workers : MidJob(w) /\ ~MidJob(w)' =>
            /\ pc[w] = "ret"
            /\ jobState[curJob[w]] = "running" /\ jobState'[curJob[w]] = "done"
            /\ jobs[curJob[w]].ResultCh # "nil" =>
                  chans'[jobs[curJob[w]].ResultCh] =
                      Append(chans[jobs[curJob[w]].ResultCh],
                             MkJobResult(curJob[w], ret[w].Result, ret[w].Err))]_vars
    /\ [](\A j \in DOMAIN jobState : jobState[j] = "running" =>
            \E w \in Workers : curJob[w] = j /\ MidJob(w))

\* Stop has returned after Start launched workers, and a job a worker had
\* dequeued is done
StopWaitsForWorkersWitness ==
    /\ lifeCalls.stops >= 1
    /\ launched >= 1
    /\ \A w \in LaunchedWorkers : pc[w] = "exited"
    /\ \E w \in LaunchedWorkers : curJob[w] # 0 /\ jobState[curJob[w]] = "done"

\* C5: no call of Stop crashes the process
StopNeverPanics == \A l \in Lifecyclers \cap DOMAIN pc : pc[l] # "panic"

\* C6: at most workerCount workers are ever launched (the number of CPUs when
\* workerCount <= 0), and once a Start call has returned exactly that many have been
StartLaunchesOnce ==
    LET n == IF cfg.WorkerCount <= 0 THEN NumCPU ELSE cfg.WorkerCount
    IN /\ launched <= n
       /\ once = "done" \/ lifeCalls.starts > 0 => launched = n

\* two calls of Start have returned on a Processor with the default worker count
StartLaunchesOnceWitness ==
    /\ lifeCalls.starts = 2
    /\ cfg.WorkerCount <= 0
    /\ launched = NumCPU

\* C7: when Stop returns on a Processor whose workers Start has launched, the
\* job queue is empty
StopDrainsQueue == [][StopReturns /\ lifeCalls.starts >= 1 => jobQueue = <<>>]_vars

\* C8: a worker that has a result to deliver gets back to its select (unless
\* the process has crashed)
DeliveryNeverBlocks ==
    \A w \in Workers : (pc[w] = "ret") ~> (pc[w] = "select" \/ panicked)

-----------------------------------------------------------------------------
(* Properties of one Process call / one Pipeline run *)

Goroutines == DOMAIN pc

IsExec(e) == e.ev = "exec"
Execs(t) == SelectSeq(log[t], IsExec)

\* the Execute calls of the step the goroutine is at
Attempts(t) == LET AtStep(e) == e.ev = "exec" /\ e.idx = lv[t].idx IN SelectSeq(log[t], AtStep)

PolicyReturned(t) == pc[t] \in {"after", "run.done"}
PolicyMaxRetries(t) == IF pc[t] = "after" THEN cfg.MaxRetries ELSE pipeline.maxRetries
NoCancellation ==
    /\ \A c \in DOMAIN ctxState : ctxState[c] = "none"
    /\ \A t \in Goroutines : deadline[t] # "expired"

\* C3: with maxRetries >= 0 and no cancellation, when the retry policy
\* returns, the step was attempted between 1 and maxRetries+1 times; a step
\* whose attempts all failed with a retryable error was attempted exactly
\* maxRetries+1 times and the policy returns the last attempt's error
\* unchanged; a step whose first attempt failed with a non-retryable error
\* was attempted once; a successful attempt is the last one, so a step that
\* succeeds on attempt k was attempted exactly k times.
RetryBound ==
    \A t \in Goroutines :
        (PolicyReturned(t) /\ PolicyMaxRetries(t) >= 0 /\ NoCancellation) =>
            LET A == Attempts(t)
                n == Len(A)
                m == PolicyMaxRetries(t)
            IN /\ n >= 1
               /\ n <= m + 1
               /\ \A k \in 1..n : A[k].att = k
               /\ (\A k \in 1..n : IsRetryable(A[k].err)) => n = m + 1
               /\ (A[1].err # NoErr /\ ~IsRetryable(A[1].err)) => n = 1
               /\ \A k \in 1..n : A[k].err = NoErr => k = n
               /\ lv[t].err = A[n].err
               /\ lv[t].result = A[n].out

\* C3 witness: a policy with at least one retry returned after maxRetries+1
\* attempts that all failed with a retryable error.
RetryBoundWitness ==
    \E t \in Goroutines :
        /\ pc[t] = "after"
        /\ cfg.MaxRetries >= 1
        /\ NoCancellation
        /\ Len(Attempts(t)) = cfg.MaxRetries + 1
        /\ \A k \in 1..Len(Attempts(t)) : IsRetryable(Attempts(t)[k].err)

FirstInput(t) ==
    IF "img" \in DOMAIN frame[t] THEN frame[t].img
    ELSE MkImage(Bytes(frame[t].src, lv[t].n), DetectFormat(Bytes(frame[t].src, lv[t].n)))

Finished(t) == pc[t] \in {"ret", "run.ret"}

\* C9: the Execute calls of one call happen in list order: the first is
\* attempt 1 of step 1 on the ingested state; each later one is either the
\* next attempt of the same step on the same input after a failed attempt, or
\* attempt 1 of the next step after a successful attempt, on exactly the
\* state that attempt returned.  When the last Execute failed and the call
\* has returned, it returned no result and that step's error (the attempt's
\* own error, or the cancellation of its retry wait attributed to the step).
StepsInOrder ==
    \A t \in Goroutines :
        LET E == Execs(t)
            n == Len(E)
        IN /\ n > 0 => (E[1].idx = 1 /\ E[1].att = 1 /\ E[1].in = FirstInput(t))
           /\ \A j \in 1..(n - 1) :
                \/ /\ E[j + 1].idx = E[j].idx
                   /\ E[j + 1].att = E[j].att + 1
                   /\ E[j + 1].in = E[j].in
                   /\ E[j].err # NoErr
                \/ /\ E[j + 1].idx = E[j].idx + 1
                   /\ E[j + 1].att = 1
                   /\ E[j].err = NoErr
                   /\ E[j + 1].in = E[j].out
           /\ (Finished(t) /\ n > 0 /\ E[n].err # NoErr) =>
                /\ ret[t].Result \in {NilResult, [Primary |-> NilImg, StepTimings |-> lv[t].timings]}
                /\ \/ ret[t].Err = E[n].err
                   \/ /\ IsRetryable(E[n].err)
                      /\ ret[t].Err \in {Wrap("pipeline", E[n].name, Canceled),
                                          Wrap("pipeline", E[n].name, DeadlineExceeded)}
           /\ (Finished(t) /\ n > 0 /\ ret[t].Err = NoErr) =>
                /\ E[n].err = NoErr
                /\ ret[t].Result.Primary = E[n].out

\* C9 witness: step 2 ran on what step 1 returned, failed, and Process
\* returned its error.
StepsInOrderWitness ==
    \E t \in Goroutines :
        /\ pc[t] = "ret"
        /\ Len(Execs(t)) >= 2
        /\ Execs(t)[Len(Execs(t))].idx = 2
        /\ Execs(t)[Len(Execs(t))].in.Image # <<>>
        /\ ret[t].Err = Execs(t)[Len(Execs(t))].err
        /\ ret[t].Err # NoErr

\* C10: whenever no Process call is in progress, the two counters add up to
\* the number of Process calls that have returned.
CountersCoverEveryReturn ==
    (\A t \in Goroutines : pc[t] \in {"call", "ret"}) =>
        processedCount + errorCount = returned

-----------------------------------------------------------------------------
(* Properties of Batch *)

BatchDone == batch # NoBatch /\ pc[BatchCaller] = "batch.ret"
Malformed(src) == src.kind # "jpeg"
DecodeOnly == batch.steps = <<DecodeStep>>

\* C2: when Batch returns, both lists are as long as the source list and
\* entry i is the pair the Process call on source i returned, a result being
\* built from source i's bytes; with decoding as the only step and no
\* cancellation, index i holds an error and a nil result exactly when source
\* i is malformed, and otherwise a result and a nil error
BatchAligned ==
    BatchDone =>
        /\ Len(batch.results) = Len(batch.sources)
        /\ Len(batch.errs) = Len(batch.sources)
        /\ \A i \in 1..Len(batch.sources) :
              /\ batch.results[i] = ret[<<"branch", i>>].Result
              /\ batch.errs[i] = ret[<<"branch", i>>].Err
              /\ frame[<<"branch", i>>].src = batch.sources[i]
              /\ batch.results[i] # NilResult =>
                    batch.results[i].Primary.Data.name = batch.sources[i].name
              /\ DecodeOnly /\ NoCancellation =>
                    IF Malformed(batch.sources[i])
                      THEN batch.results[i] = NilResult /\ batch.errs[i] # NoErr
                      ELSE batch.results[i] # NilResult /\ batch.errs[i] = NoErr

\* Batch has returned for MaxBatch sources of which exactly one, not the
\* first, is malformed
BatchAlignedWitness ==
    /\ BatchDone
    /\ DecodeOnly /\ NoCancellation
    /\ Len(batch.sources) = MaxBatch
    /\ Cardinality({i \in 1..Len(batch.sources) : Malformed(batch.sources[i])}) = 1
    /\ \E k \in 2..Len(batch.sources) :
          /\ Malformed(batch.sources[k])
          /\ batch.errs[k] # NoErr

-----------------------------------------------------------------------------
(* Cancellation *)

ScopeCancelled(t) == ctxState[frame[t].ctx] = "canceled"
Ingesting(t) == pc[t] \in {"call", "drain"}
Moved(t) == pc'[t] # pc[t] \/ lv'[t] # lv[t]

\* C11: a Process call with a non-empty step list whose scope is cancelled
\* before ingestion has finished goes nowhere but to its return, with an
\* error and no result; up to there no Execute and no hook event has happened,
\* and nothing happens after the return
CancelledCallFails ==
    /\ [](\A t \in Goroutines : Ingesting(t) => log[t] = <<>>)
    /\ [][\A t \in Goroutines :
            Ingesting(t) /\ Len(frame[t].steps) > 0 /\ ScopeCancelled(t) /\ Moved(t) =>
                \/ pc[t] = "call" /\ pc'[t] = "drain"
                \/ /\ pc'[t] = "ret"
                   /\ ret'[t].Result = NilResult
                   /\ ret'[t].Err # NoErr
                   /\ log'[t] = <<>>]_vars
    /\ [][\A t \in Goroutines :
            pc[t] = "ret" /\ pc'[t] = "ret" => log'[t] = log[t] /\ ret'[t] = ret[t]]_vars

\* Process has returned for a non-empty source without having read a byte
\* of it, under a cancelled scope
CancelledCallFailsWitness ==
    \E t \in Goroutines :
        /\ pc[t] = "ret"
        /\ ScopeCancelled(t)
        /\ Len(frame[t].steps) > 0
        /\ frame[t].src.size > 0 /\ lv[t].n = 0
        /\ ret[t].Result = NilResult /\ ret[t].Err # NoErr
        /\ log[t] = <<>>

ScopeErrors == {Canceled, DeadlineExceeded}
StepNames(t) == {frame[t].steps[i].name : i \in DOMAIN frame[t].steps}

\* C12: an error Process returns because its scope was cancelled or expired
\* is a pipeline-category error whose operation is the name of a step of the list
CancellationNamesStep ==
    \A t \in Goroutines :
        pc[t] = "ret" /\ ret[t].Err.kind = "pe" /\ ret[t].Err.Err \in ScopeErrors =>
            /\ ret[t].Err.Category = "pipeline"
            /\ ret[t].Err.Op \in StepNames(t)

ScopeErr(t) ==
    IF deadline[t] = "expired" THEN DeadlineExceeded
    ELSE IF ScopeCancelled(t) THEN Canceled
    ELSE NoErr

Waiting(t) == pc[t] \in {"wait", "run.wait"}
WaitingStepName(t) ==
    IF pc[t] = "wait" THEN frame[t].steps[lv[t].idx].name ELSE pipeline.steps[lv[t].idx].name

\* the delay elapses: the loop of the policy goes round
DelayElapses(t) ==
    /\ pc'[t] = (IF pc[t] = "wait" THEN "retry" ELSE "run.attempt")
    /\ lv'[t].i = lv[t].i + 1

\* the policy leaves the wait with the cancellation error of the step, having
\* started no attempt
StopsWaiting(t) ==
    /\ pc'[t] = (IF pc[t] = "wait" THEN "after" ELSE "run.done")
    /\ lv'[t].err = New("pipeline", WaitingStepName(t), ScopeErr(t))
    /\ lv'[t].i = lv[t].i
    /\ log'[t] = log[t]

\* C13: while the policy waits between two attempts under a cancelled scope it
\* can leave the wait at once, and unless the delay elapses it does nothing
\* else; it then makes no further attempt and the call returns the
\* cancellation error attributed to the step
WaitIsPreemptible ==
    /\ [](\A t \in Goroutines :
            Running /\ Waiting(t) /\ ScopeErr(t) # NoErr =>
                ENABLED (NextProcess /\ StopsWaiting(t)))
    /\ [][\A t \in Goroutines :
            Waiting(t) /\ ScopeErr(t) # NoErr /\ Moved(t) /\ ~DelayElapses(t) =>
                StopsWaiting(t)]_vars
    /\ [][\A t \in Goroutines :
            PolicyReturned(t) /\ lv[t].err # NoErr /\ Moved(t) =>
                /\ pc'[t] \in {"ret", "run.ret"}
                /\ ret'[t].Err = lv[t].err
                /\ Execs(t)' = Execs(t)]_vars

\* a call has returned the cancellation error of a step whose last attempt
\* failed with a retryable error while attempts remained
WaitIsPreemptibleWitness ==
    \E t \in Goroutines :
        /\ pc[t] = "ret"
        /\ ret[t].Err = New("pipeline", "custom", Canceled)
        /\ Attempts(t) # <<>>
        /\ IsRetryable(Last(Attempts(t)).err)
        /\ Len(Attempts(t)) <= cfg.MaxRetries

-----------------------------------------------------------------------------
(* errors/errors.go as pure functions: a caller builds an error value and    *)
(* asks IsRetryable or IsCategory about it.                                  *)

ErrCallers == {<<"errs", 1>>}

\* errors.go:11-19
Categories == {"decode", "encode", "pipeline", "storage", "config", "transient", "input"}

\* errors.go:22-27: a ProcessingError written as a struct literal
Literal(category, op, err, retryable) ==
    [kind |-> "pe", Category |-> category, Op |-> op, Err |-> err, Retryable |-> retryable]

\* The error values of the caller: nil, a plain error, and ProcessingErrors
\* built with New, with Transient and as struct literals.
ErrorValues ==
    {NoErr, ErrEmptyInput}
        \cup {New(c, "op", e) : c \in Categories, e \in {ErrEmptyInput, Canceled}}
        \cup {Transient("op", e) : e \in {ErrEmptyInput, Canceled}}
        \cup {Literal(c, "op", ErrEmptyInput, b) : c \in Categories, b \in BOOLEAN}

\* errors.go:54-60 applied to the caller's value
CallIsRetryable(t) ==
    /\ pc[t] = "err.new"
    /\ pc' = [pc EXCEPT ![t] = "err.retryable"]
    /\ ret' = [ret EXCEPT ![t] = [Result |-> IsRetryable(frame[t].err), Err |-> NoErr]]
    /\ UNCHANGED <<cfg, hooks, counterVars, ctxState, frame, lv, log, deadline,
                   panicked, poolVars, otherVars>>

\* errors.go:63-69 applied to the caller's value and a category
CallIsCategory(t, cat) ==
    /\ pc[t] = "err.new"
    /\ pc' = [pc EXCEPT ![t] = "err.category"]
    /\ lv' = [lv EXCEPT ![t].current = cat]
    /\ ret' = [ret EXCEPT ![t] = [Result |-> IsCategory(frame[t].err, cat), Err |-> NoErr]]
    /\ UNCHANGED <<cfg, hooks, counterVars, ctxState, frame, log, deadline,
                   panicked, poolVars, otherVars>>

InitErrors ==
    /\ InitProcessor
    /\ cfg = MkConfig(1, 1, 0, 0, 0, 0)
    /\ hooks = <<>>
    /\ ctxState = [c \in {"ctx"} |-> "none"]
    /\ InitGoroutines(ErrCallers)
    /\ pc = [t \in ErrCallers |-> "err.new"]
    /\ frame \in [ErrCallers -> {[err |-> e] : e \in ErrorValues}]
    /\ InitNoPool
    /\ batch = NoBatch
    /\ variants = NoVariants
    /\ registry = NoRegistry
    /\ pipeline = NoPipeline

NextErrors ==
    \/ \E t \in ErrCallers : CallIsRetryable(t)
    \/ \E t \in ErrCallers, cat \in Categories : CallIsCategory(t, cat)

SpecErrors == InitErrors /\ [][NextErrors]_vars

\* C14: IsRetryable answers true for every error of the transient category,
\* and for an error of another category exactly when its retryable flag is set
TransientIsRetryable ==
    \A t \in Goroutines :
        pc[t] = "err.retryable" /\ frame[t].err.kind = "pe" =>
            ret[t].Result = (frame[t].err.Category = "transient" \/ frame[t].err.Retryable)

-----------------------------------------------------------------------------
(* Batch: no fail-fast *)

BranchOf(i) == <<"branch", i>>
BatchIndexes == 1..Len(batch.sources)

\* C15: Batch returns only when the branch of every source has stored its
\* pair; a step of one branch changes neither the scope nor anything of
\* another branch; and, the scope not being cancelled, a branch that reports
\* no error has executed every step of the list and a branch that reports an
\* error reports the one its own last Execute returned
BatchNoFailFast ==
    /\ [][pc'[BatchCaller] = "batch.ret" /\ pc[BatchCaller] # "batch.ret" =>
            \A i \in BatchIndexes : pc[BranchOf(i)] = "stored"]_vars
    /\ [][\A b \in Branches : Moved(b) =>
            /\ ctxState' = ctxState
            /\ \A o \in Branches \ {b} :
                  /\ pc'[o] = pc[o] /\ lv'[o] = lv[o]
                  /\ ret'[o] = ret[o] /\ log'[o] = log[o]]_vars
    /\ [](BatchDone /\ NoCancellation =>
            \A i \in BatchIndexes :
                IF batch.errs[i] = NoErr
                  THEN /\ batch.results[i] # NilResult
                       /\ \A k \in 1..Len(batch.steps) :
                            \E e \in DOMAIN Execs(BranchOf(i)) :
                                /\ Execs(BranchOf(i))[e].idx = k
                                /\ Execs(BranchOf(i))[e].err = NoErr
                  ELSE /\ Execs(BranchOf(i)) # <<>>
                       /\ Last(Execs(BranchOf(i))).err = batch.errs[i])

\* Batch has returned, uncancelled, with a source that failed and a later
\* source that ran both steps and reports a result
BatchNoFailFastWitness ==
    /\ BatchDone /\ NoCancellation
    /\ Len(batch.steps) = 2
    /\ \E k, i \in BatchIndexes :
          /\ k < i
          /\ batch.errs[k] # NoErr
          /\ batch.errs[i] = NoErr /\ batch.results[i] # NilResult
          /\ Len(Execs(BranchOf(i))) >= 2

-----------------------------------------------------------------------------
(* core/processor.go: Processor.ProcessVariants.  The caller's goroutine    *)
(* runs Process with the base steps, then spawns one goroutine per variant  *)
(* definition; each clones base.Primary, runs its own steps and stores the  *)
(* state it ends with under the definition's name.                          *)
(* pc of the caller: Process's, then "pv.loop" -> "pv.wait" -> "pv.ret";    *)
(* pc of a variant goroutine: "unborn" -> "v.clone" -> "v.step"             *)
(* (-> "v.read") -> ... -> "v.done".                                        *)

VariantsCaller == <<"variants", 0>>
VariantBranches == {<<"variant", i>> : i \in 1..MaxVariants}
VariantGoroutines == {VariantsCaller} \cup VariantBranches

\* pipeline.ResizeStep and vips.VipsResizeStep with Height 0.
ResizeStep(w) == [name |-> "resize", Width |-> w]
VipsResizeStep(w) == [name |-> "vips.resize", Width |-> w]

\* core.VariantDefinition
VariantDefinition(name, steps) == [Name |-> name, Steps |-> steps]

\* utils.ScaleDimensions.  int(float64(a) * (float64(b) / float64(c))) is the
\* quotient a * b / c cut off towards zero: for dimensions up to 9 the float64
\* product is not off by enough to change the integer part.
ScaleDimensions(srcW, srcH, targetW, targetH) ==
    IF targetW = 0 /\ targetH = 0 THEN <<srcW, srcH>>
    ELSE IF targetW = 0 THEN <<(srcW * targetH) \div srcH, targetH>>
    ELSE IF targetH = 0 THEN <<targetW, (srcH * targetW) \div srcW>>
    ELSE <<targetW, targetH>>

\* The width ScaleDimensions returns for a target height of 0; the model's
\* images carry no height, and this width does not depend on it.
ScaleWidth(srcW, targetW) == ScaleDimensions(srcW, srcW, targetW, 0)[1]

\* The dynamic type of a decoded Image is the backend's: image.Image for the
\* standard decoders, *VipsImage (a pointer to the one govips handle the
\* decoder made) for the vips backend.
IsGoImage(img) == variants.backend = "go" /\ img.Image # <<>>
IsVipsImage(img) == variants.backend = "vips" /\ img.Image # <<>>

\* pipeline.ResizeStep.Execute: the source's bounds are those decode or the
\* previous resize recorded in Meta; the result is a copy with a new buffer.
ResizeExecute(step, ctxErr, img) ==
    IF ctxErr # NoErr THEN {Out(NilImg, Wrap("pipeline", "resize", ctxErr))}
    ELSE IF ~IsGoImage(img) THEN {Out(NilImg, New("pipeline", "resize", ErrEmptyInput))}
    ELSE LET dstW == ScaleWidth(img.Meta.Width, step.Width)
         IN IF dstW = img.Meta.Width THEN {Out(img, NoErr)}
            ELSE IF dstW <= 0
                THEN {Out(NilImg, New("pipeline", "resize", Plain("invalid dimensions", 0)))}
            ELSE {Out([img EXCEPT !.Image = Append(@, "resize"),
                                  !.Meta.Width = dstW], NoErr)}

\* vips.VipsResizeStep.Execute up to the call of vi.ref.Resize: TRUE when the
\* step goes on to resize the handle (no error, dimensions differ).
VipsResizes(step, ctxErr, img) ==
    /\ ctxErr = NoErr
    /\ IsVipsImage(img)
    /\ ScaleWidth(img.Meta.Width, step.Width) # img.Meta.Width

\* vips.VipsResizeStep.Execute when it returns without touching the handle.
VipsResizeExecute(step, ctxErr, img) ==
    IF ctxErr # NoErr THEN {Out(NilImg, Wrap("pipeline", "vips.resize", ctxErr))}
    ELSE IF ~IsVipsImage(img)
        THEN {Out(NilImg, New("pipeline", "vips.resize", Plain("expected *VipsImage", 0)))}
    ELSE {Out(img, NoErr)}

\* step.Execute(ctx, result) of a variant goroutine, for every step that does
\* not write to the handle.
VariantExecute(step, ctxErr, img) ==
    IF step.name = "resize" THEN ResizeExecute(step, ctxErr, img)
    ELSE IF step.name = "vips.resize" THEN VipsResizeExecute(step, ctxErr, img)
    ELSE Execute(step, ctxErr, img, 0)

\* The locals of a variant goroutine: result, stepErr and the loop index.
NoLocal == [result |-> NilImg, stepErr |-> NoErr, k |-> 0]
EmptyMap == [n \in {} |-> NilImg]

\* processor.go:196-199: the locals of ProcessVariants.  handle is the width
\* of the image behind the govips handle of the vips backend (0: none).
MkVariants(defs, backend) ==
    [defs |-> defs, backend |-> backend, base |-> NilResult,
     variantResults |-> EmptyMap, errs |-> <<>>, i |-> 0, wg |-> 0,
     local |-> [b \in VariantBranches |-> NoLocal],
     handle |-> [Width |-> 0], out |-> NoRet]

\* a ProcessVariants that spawns the variants whatever the base run returned
VariantsAfterBaseMut ==
    /\ Running
    /\ pc[VariantsCaller] = "ret"
    /\ variants' = [variants EXCEPT !.base = ret[VariantsCaller].Result,
                                    !.handle.Width = SrcWidth]
    /\ pc' = [pc EXCEPT ![VariantsCaller] = "pv.loop"]
    /\ UNCHANGED <<cfg, hooks, counterVars, ctxState, frame, lv, ret, log, deadline,
                   panicked, poolVars, batch, pipeline, registry>>

\* processor.go:190-194: Process has returned base, err; an error is returned
\* at once with a nil result.  With the vips backend the decoded base state
\* points at the handle the decoder made.
VariantsAfterBase ==
    /\ Running
    /\ pc[VariantsCaller] = "ret"
    /\ IF ret[VariantsCaller].Err # NoErr
         THEN /\ variants' = [variants EXCEPT
                    !.out = [Result |-> NilResult, Err |-> ret[VariantsCaller].Err]]
              /\ pc' = [pc EXCEPT ![VariantsCaller] = "pv.ret"]
         ELSE /\ variants' = [variants EXCEPT
                    !.base = ret[VariantsCaller].Result,
                    !.handle.Width = IF variants.backend = "vips"
                                       THEN ret[VariantsCaller].Result.Primary.Meta.Width
                                       ELSE 0]
              /\ pc' = [pc EXCEPT ![VariantsCaller] = "pv.loop"]
    /\ UNCHANGED <<cfg, hooks, counterVars, ctxState, frame, lv, ret, log, deadline,
                   panicked, poolVars, batch, pipeline, registry>>

\* processor.go:201-203 and 223: wg.Add(1) and the go statement for the next
\* definition; vd is passed by value.
VariantSpawn ==
    /\ Running
    /\ pc[VariantsCaller] = "pv.loop"
    /\ variants.i < Len(variants.defs)
    /\ LET idx == variants.i + 1
           b == <<"variant", idx>>
       IN /\ variants' = [variants EXCEPT !.i = idx, !.wg = @ + 1]
          /\ pc' = [pc EXCEPT ![b] = "v.clone"]
          /\ frame' = [frame EXCEPT ![b] = [ctx |-> "ctx", vd |-> variants.defs[idx]]]
    /\ UNCHANGED <<cfg, hooks, counterVars, ctxState, lv, ret, log, deadline, panicked,
                   poolVars, batch, pipeline, registry>>

\* processor.go:201: the range loop is over.
VariantsLoopEnd ==
    /\ Running
    /\ pc[VariantsCaller] = "pv.loop"
    /\ variants.i >= Len(variants.defs)
    /\ pc' = [pc EXCEPT ![VariantsCaller] = "pv.wait"]
    /\ UNCHANGED <<cfg, hooks, counterVars, ctxState, frame, lv, ret, log, deadline,
                   panicked, poolVars, otherVars>>

\* processor.go:206-207: clone := *base.Primary; result := &clone.  The copy
\* is shallow: its Image is the pointer base.Primary holds.  A nil base or a
\* nil Primary is a nil-pointer panic.
VariantClone(b) ==
    /\ Running
    /\ pc[b] = "v.clone"
    /\ IF variants.base = NilResult \/ variants.base.Primary = NilImg
         THEN /\ panicked' = TRUE
              /\ UNCHANGED <<pc, variants>>
         ELSE /\ variants' = [variants EXCEPT
                    !.local[b] = [result |-> variants.base.Primary, stepErr |-> NoErr,
                                  k |-> 1]]
              /\ pc' = [pc EXCEPT ![b] = "v.step"]
              /\ UNCHANGED panicked
    /\ UNCHANGED <<cfg, hooks, counterVars, ctxState, frame, lv, ret, log, deadline,
                   poolVars, batch, pipeline, registry>>

VariantStepAt(b) == frame[b].vd.Steps[variants.local[b].k]
VariantHasStep(b) == pc[b] = "v.step" /\ variants.local[b].k <= Len(frame[b].vd.Steps)

\* a branch that executes no further step once a sibling has failed
VariantExecMut(b) ==
    /\ variants.errs = <<>>
    /\ Running
    /\ VariantHasStep(b)
    /\ LET step == VariantStepAt(b)
           img == variants.local[b].result
       IN /\ ~(step.name = "vips.resize" /\ VipsResizes(step, CtxErr(b), img))
          /\ \E o \in VariantExecute(step, CtxErr(b), img) :
                IF o.err # NoErr
                  THEN /\ variants' = [variants EXCEPT !.errs = Append(@, o.err),
                                                       !.wg = @ - 1,
                                                       !.local[b].result = o.img,
                                                       !.local[b].stepErr = o.err]
                       /\ pc' = [pc EXCEPT ![b] = "v.done"]
                  ELSE /\ variants' = [variants EXCEPT !.local[b].result = o.img,
                                                       !.local[b].k = @ + 1]
                       /\ UNCHANGED pc
    /\ UNCHANGED <<cfg, hooks, counterVars, ctxState, frame, lv, ret, log, deadline,
                   panicked, poolVars, batch, pipeline, registry>>

\* processor.go:209-217: one step.Execute(ctx, result) that leaves the handle
\* alone; on an error the branch appends it to errs under the mutex and
\* returns, which runs the deferred wg.Done().
VariantExec(b) ==
    /\ Running
    /\ VariantHasStep(b)
    /\ LET step == VariantStepAt(b)
           img == variants.local[b].result
       IN /\ ~(step.name = "vips.resize" /\ VipsResizes(step, CtxErr(b), img))
          /\ \E o \in VariantExecute(step, CtxErr(b), img) :
                IF o.err # NoErr
                  THEN /\ variants' = [variants EXCEPT !.errs = Append(@, o.err),
                                                       !.wg = @ - 1,
                                                       !.local[b].result = o.img,
                                                       !.local[b].stepErr = o.err]
                       /\ pc' = [pc EXCEPT ![b] = "v.done"]
                  ELSE /\ variants' = [variants EXCEPT !.local[b].result = o.img,
                                                       !.local[b].k = @ + 1]
                       /\ UNCHANGED pc
    /\ UNCHANGED <<cfg, hooks, counterVars, ctxState, frame, lv, ret, log, deadline,
                   panicked, poolVars, batch, pipeline, registry>>

\* vips/processor.go:211-214: scale := dstW / img.Meta.Width;
\* vi.ref.Resize(scale, ...) scales the image behind the handle in place
\* (the new width is rounded down here).
VipsResize(b) ==
    /\ Running
    /\ VariantHasStep(b)
    /\ LET step == VariantStepAt(b)
           img == variants.local[b].result
           dstW == ScaleWidth(img.Meta.Width, step.Width)
       IN /\ step.name = "vips.resize"
          /\ VipsResizes(step, CtxErr(b), img)
          /\ variants' = [variants EXCEPT
                !.handle.Width = (@ * dstW) \div img.Meta.Width]
    /\ pc' = [pc EXCEPT ![b] = "v.read"]
    /\ UNCHANGED <<cfg, hooks, counterVars, ctxState, frame, lv, ret, log, deadline,
                   panicked, poolVars, batch, pipeline, registry>>

\* vips/processor.go:215-218: out := *img; out.Meta.Width = vi.ref.Width().
VipsReadWidth(b) ==
    /\ Running
    /\ pc[b] = "v.read"
    /\ variants' = [variants EXCEPT
            !.local[b].result.Meta.Width = variants.handle.Width,
            !.local[b].k = @ + 1]
    /\ pc' = [pc EXCEPT ![b] = "v.step"]
    /\ UNCHANGED <<cfg, hooks, counterVars, ctxState, frame, lv, ret, log, deadline,
                   panicked, poolVars, batch, pipeline, registry>>

\* The map after variantResults[name] = result.
MapStore(m, name, result) ==
    [n \in DOMAIN m \cup {name} |-> IF n = name THEN result ELSE m[n]]

\* processor.go:219-221: the step loop is over; variantResults[vd.Name] =
\* result under the mutex, then the deferred wg.Done().
VariantStore(b) ==
    /\ Running
    /\ pc[b] = "v.step"
    /\ variants.local[b].k > Len(frame[b].vd.Steps)
    /\ variants' = [variants EXCEPT
            !.variantResults = MapStore(@, frame[b].vd.Name, variants.local[b].result),
            !.wg = @ - 1]
    /\ pc' = [pc EXCEPT ![b] = "v.done"]
    /\ UNCHANGED <<cfg, hooks, counterVars, ctxState, frame, lv, ret, log, deadline,
                   panicked, poolVars, batch, pipeline, registry>>

\* a ProcessVariants that fails only when no variant was stored
VariantsFailedMut == variants.errs # <<>> /\ variants.variantResults = EmptyMap

\* processor.go:226: len(errs) > 0
VariantsFailed == variants.errs # <<>>

\* processor.go:224-230: wg.Wait() returns; the first error appended, or base
\* with its Variants set to the map.
VariantsReturn ==
    /\ Running
    /\ pc[VariantsCaller] = "pv.wait"
    /\ variants.wg = 0
    /\ variants' = [variants EXCEPT !.out =
            IF VariantsFailed
              THEN [Result |-> NilResult, Err |-> variants.errs[1]]
              ELSE [Result |-> [Primary |-> variants.base.Primary,
                                StepTimings |-> variants.base.StepTimings,
                                Variants |-> variants.variantResults],
                    Err |-> NoErr]]
    /\ pc' = [pc EXCEPT ![VariantsCaller] = "pv.ret"]
    /\ UNCHANGED <<cfg, hooks, counterVars, ctxState, frame, lv, ret, log, deadline,
                   panicked, poolVars, batch, pipeline, registry>>

VariantStep(b) ==
    VariantClone(b) \/ VariantExec(b) \/ VipsResize(b) \/ VipsReadWidth(b) \/ VariantStore(b)

\* The caller's inputs: a JPEG or malformed content, base steps that decode,
\* and up to MaxVariants definitions named "a" or "b".
VariantStepLists ==
    { <<ResizeStep(SrcWidth \div 2)>>,
      <<ResizeStep(SrcWidth \div 4), CustomStep>>,
      <<VipsResizeStep(SrcWidth \div 2)>>,
      <<VipsResizeStep(SrcWidth \div 4)>>,
      <<VipsResizeStep(SrcWidth), CustomStep>> }
VariantDefs ==
    SeqsUpTo({VariantDefinition(n, l) : n \in {"a", "b"}, l \in VariantStepLists},
             MaxVariants)

InitVariants ==
    /\ InitProcessor
    /\ cfg = MkConfig(1, 1, 0, 1, 0, 0)
    /\ hooks = <<"h1", "h2">>
    /\ ctxState = [c \in {"ctx"} |-> "none"]
    /\ InitGoroutines(VariantGoroutines)
    /\ pc = [t \in VariantGoroutines |-> IF t = VariantsCaller THEN "call" ELSE "unborn"]
    /\ frame \in {[t \in VariantGoroutines |->
                      IF t = VariantsCaller THEN MkFrame("ctx", s, l) ELSE NoFrame] :
                  s \in {MkSource("s", k, MagicLen) : k \in {"jpeg", "junk"}},
                  l \in {<<DecodeStep>>, <<DecodeStep, CustomStep>>}}
    /\ InitNoPool
    /\ batch = NoBatch
    /\ pipeline = NoPipeline
    /\ variants \in {MkVariants(d, be) : d \in VariantDefs, be \in {"go", "vips"}}
    /\ registry = NoRegistry

NextVariants ==
    \/ ProcessStep(VariantsCaller)
    \/ VariantsAfterBase
    \/ VariantSpawn
    \/ VariantsLoopEnd
    \/ \E b \in VariantBranches : VariantStep(b)
    \/ VariantsReturn
    \/ \E c \in DOMAIN ctxState : Cancel(c)

SpecVariants == InitVariants /\ [][NextVariants]_vars

-----------------------------------------------------------------------------
(* Properties of ProcessVariants *)

BaseReturned == pc[VariantsCaller] \in {"ret", "pv.loop", "pv.wait", "pv.ret"}
BaseSucceeded ==
    /\ pc[VariantsCaller] \in {"pv.loop", "pv.wait", "pv.ret"}
    /\ ret[VariantsCaller].Err = NoErr
    /\ variants.base = ret[VariantsCaller].Result
BaseFailed == BaseReturned /\ ret[VariantsCaller].Err # NoErr
NoVariantRan ==
    /\ \A b \in VariantBranches : pc[b] = "unborn" /\ variants.local[b] = NoLocal
    /\ variants.errs = <<>>
    /\ variants.variantResults = EmptyMap
    /\ variants.wg = 0
VariantActs ==
    \/ variants'.local # variants.local
    \/ variants'.errs # variants.errs
    \/ variants'.variantResults # variants.variantResults
    \/ \E b \in VariantBranches : pc'[b] # pc[b]

\* C16: in ProcessVariants a variant goroutine exists, and any step of a
\* variant runs, only after Process has returned the base state without an
\* error; while the base run is under way or after it failed no variant has
\* run, and after a failed base run ProcessVariants returns nil and the error
\* Process returned
BaseBeforeVariants ==
    /\ [](~BaseSucceeded => NoVariantRan)
    /\ [][VariantActs => BaseSucceeded /\ BaseSucceeded']_vars
    /\ [](BaseFailed => pc[VariantsCaller] \in {"ret", "pv.ret"})
    /\ [](BaseFailed /\ pc[VariantsCaller] = "pv.ret" =>
              variants.out = [Result |-> NilResult, Err |-> ret[VariantsCaller].Err])
    /\ [](Running /\ BaseFailed /\ pc[VariantsCaller] = "ret" => ENABLED VariantsAfterBase)

\* the base run failed and ProcessVariants, called with MaxVariants
\* definitions, has returned
BaseBeforeVariantsWitness ==
    /\ BaseFailed
    /\ pc[VariantsCaller] = "pv.ret"
    /\ Len(variants.defs) = MaxVariants

VariantsReturned == pc[VariantsCaller] = "pv.ret"
BranchOfDef(i) == <<"variant", i>>
FailedBranches ==
    {b \in VariantBranches : pc[b] = "v.done" /\ variants.local[b].stepErr # NoErr}
DistinctNames ==
    \A i, j \in 1..Len(variants.defs) :
        variants.defs[i].Name = variants.defs[j].Name => i = j

\* C17: when ProcessVariants returns after a successful base run every variant
\* goroutine it started has finished; it returns nil and an error exactly when
\* some variant goroutine failed, and then the error is the stepErr of one of
\* the failed goroutines; otherwise it returns the base result and, when the
\* definitions have pairwise distinct names, its Variants map has exactly the
\* definitions' names as keys, each holding the state that definition's
\* goroutine ended with
VariantsJoined ==
    VariantsReturned /\ BaseSucceeded =>
        /\ \A i \in 1..Len(variants.defs) : pc[BranchOfDef(i)] = "v.done"
        /\ (variants.out.Err # NoErr) = (FailedBranches # {})
        /\ (variants.out.Result = NilResult) = (FailedBranches # {})
        /\ variants.out.Err # NoErr =>
              variants.out.Err \in {variants.local[b].stepErr : b \in FailedBranches}
        /\ FailedBranches = {} =>
              /\ variants.out.Result.Primary = variants.base.Primary
              /\ DistinctNames =>
                    /\ DOMAIN variants.out.Result.Variants =
                          {variants.defs[i].Name : i \in 1..Len(variants.defs)}
                    /\ \A i \in 1..Len(variants.defs) :
                          variants.out.Result.Variants[variants.defs[i].Name] =
                              variants.local[BranchOfDef(i)].result

\* ProcessVariants has returned the error of the one variant that failed,
\* while the other variant of the call was stored in the map
VariantsJoinedWitness ==
    /\ VariantsReturned
    /\ BaseSucceeded
    /\ Cardinality(FailedBranches) = 1
    /\ Len(variants.defs) = MaxVariants
    /\ variants.variantResults # EmptyMap
    /\ variants.out.Err # NoErr

\* The state a successful Execute of step leaves when nothing else runs:
\* st.img is the ImageData, st.handle the width behind the handle img points at.
StepAlone(step, st) ==
    IF step.name = "vips.resize"
      THEN IF VipsResizes(step, NoErr, st.img)
             THEN LET w == (st.handle * ScaleWidth(st.img.Meta.Width, step.Width))
                               \div st.img.Meta.Width
                  IN [img |-> [st.img EXCEPT !.Meta.Width = w], handle |-> w]
             ELSE st
    ELSE IF step.name = "resize"
      THEN [st EXCEPT !.img = (CHOOSE o \in ResizeExecute(step, NoErr, st.img) : TRUE).img]
    ELSE [st EXCEPT !.img =
            (CHOOSE o \in Execute(step, NoErr, st.img, 0) : o.err = NoErr).img]

RECURSIVE StepsAlone(_, _)
StepsAlone(steps, st) ==
    IF steps = <<>> THEN st ELSE StepsAlone(Tail(steps), StepAlone(Head(steps), st))

\* What definition i yields from the base state on its own.
VariantAlone(i) ==
    StepsAlone(variants.defs[i].Steps,
               [img |-> variants.base.Primary,
                handle |-> IF variants.backend = "vips"
                             THEN variants.base.Primary.Meta.Width ELSE 0])

\* C18: when ProcessVariants returns its result, the state of every variant is
\* the one its definition's steps yield from the base state on their own, the
\* image behind a variant's handle is the one those steps leave, and the image
\* behind the base state's handle is the decoded one
VariantIsolation ==
    VariantsReturned /\ BaseSucceeded /\ variants.out.Err = NoErr =>
        /\ \A i \in 1..Len(variants.defs) :
              /\ variants.local[BranchOfDef(i)].result = VariantAlone(i).img
              /\ variants.backend = "vips" => variants.handle.Width = VariantAlone(i).handle
        /\ variants.backend = "vips" =>
              variants.handle.Width = variants.out.Result.Primary.Meta.Width

\* the same for the variants' own metadata only, with the standard backend
VariantIsolationGo == variants.backend = "go" => VariantIsolation

-----------------------------------------------------------------------------
(* Properties of the pool's resources and of job deadlines *)

QueueCapacity == IF cfg.QueueSize <= 0 THEN DefaultQueueSize ELSE cfg.QueueSize
WorkerCount == IF cfg.WorkerCount <= 0 THEN NumCPU ELSE cfg.WorkerCount
Processing == {w \in Workers : MidJob(w)}

\* C19: at all times the queue holds at most the configured number of jobs
\* (DefaultQueueSize when the configured size is <= 0), and the workers that
\* are processing a job, like the jobs being processed, number at most the
\* worker count (NumCPU when the configured count is <= 0)
BoundedResources ==
    /\ Len(jobQueue) <= QueueCapacity
    /\ Cardinality(Processing) <= WorkerCount
    /\ Cardinality({j \in JobIds : jobState[j] = "running"}) <= WorkerCount
    /\ launched <= WorkerCount

\* the queue is full while every worker of the pool is processing a job
BoundedResourcesWitness ==
    /\ Len(jobQueue) = QueueCapacity
    /\ Cardinality(Processing) = WorkerCount
    /\ WorkerCount = NumCPU

Dequeues(w) == pc[w] = "select" /\ pc'[w] = "call"
Expired(w) == deadline[w] = "expired"
StartsStep(w) == pc[w] = "loop" /\ pc'[w] = "retry"
HasStepToStart(w) ==
    \/ pc[w] \in {"call", "drain"} /\ Len(frame[w].steps) > 0
    \/ pc[w] = "loop" /\ lv[w].idx <= Len(frame[w].steps)
IsDeadlineError(e) == e.kind = "pe" /\ e.Err = DeadlineExceeded

-----------------------------------------------------------------------------
(* Properties of Process: refusals, hook events, the byte ceiling *)

CallsProcess(t) == pipeline = NoPipeline /\ frame[t] # NoFrame
NothingDone(t) == lv[t] = NoLocals /\ log[t] = <<>>

\* C21: a Process call with an empty step list returns no result and an error
\* of the input category, having read nothing from the source, executed no
\* step and fired no hook
EmptyStepsIsInputError ==
    \A t \in Callers :
        CallsProcess(t) /\ frame[t].steps = <<>> =>
            /\ NothingDone(t)
            /\ pc[t] \in {"call", "ret"}
            /\ pc[t] = "ret" =>
                  /\ ret[t].Result = NilResult
                  /\ IsCategory(ret[t].Err, "input")

\* the part of the above that does not depend on the error's category
EmptyStepsRefused ==
    \A t \in Callers :
        CallsProcess(t) /\ frame[t].steps = <<>> =>
            /\ NothingDone(t)
            /\ pc[t] \in {"call", "ret"}
            /\ pc[t] = "ret" => ret[t].Result = NilResult /\ ret[t].Err # NoErr

\* L starts with one event of kind ev per registered hook, in registration
\* order, all for the step called name
HookRun(L, ev, name) ==
    /\ Len(L) >= Len(hooks)
    /\ \A k \in 1..Len(hooks) :
          L[k].ev = ev /\ L[k].hook = hooks[k] /\ L[k].name = name

\* the number of Execute events L starts with
LeadingExecs(L) ==
    CHOOSE m \in 0..Len(L) :
        /\ \A k \in 1..m : L[k].ev = "exec"
        /\ m < Len(L) => L[m + 1].ev # "exec"

\* L is the event sequence of steps i, i+1, ... of the list: per step the
\* before events, its attempts numbered from 1, then (unless the step is
\* still running) the after events, all carrying err: the last attempt's
\* error, or the scope's error attributed to the step when a retry wait was
\* cut short; after a failed step nothing follows
RECURSIVE StepEvents(_, _, _)
StepEvents(L, i, steps) ==
    IF L = <<>> THEN TRUE
    ELSE /\ i <= Len(steps)
         /\ HookRun(L, "before", steps[i].name)
         /\ LET rest == SubSeq(L, Len(hooks) + 1, Len(L))
                m == LeadingExecs(rest)
                tail == SubSeq(rest, m + 1, Len(rest))
                next == SubSeq(tail, Len(hooks) + 1, Len(tail))
            IN /\ \A k \in 1..m : rest[k].idx = i /\ rest[k].att = k
               /\ tail # <<>> =>
                     /\ HookRun(tail, "after", steps[i].name)
                     /\ \A k \in 1..Len(hooks) : tail[k].err = tail[1].err
                     /\ \/ m > 0 /\ tail[1].err = rest[m].err
                        \/ m > 0 /\ tail[1].err \in
                              {Wrap("pipeline", steps[i].name, e) : e \in ScopeErrors}
                        \/ m = 0 /\ tail[1].err = NoErr
                     /\ tail[1].err # NoErr => next = <<>>
                     /\ StepEvents(next, i + 1, steps)

AfterCount(t) == Len(SelectSeq(log[t], LAMBDA e : e.ev = "after"))
BeforeCount(t) == Len(SelectSeq(log[t], LAMBDA e : e.ev = "before"))

\* C22: the events of a Process call are, step by step in list order, the
\* BeforeStep of every hook in registration order, the step's attempts, then
\* the AfterStep of every hook in registration order carrying the step's
\* error; when the call has returned every step that was begun has had its
\* after events, once, a failure returned is the error the last after events
\* carried, and a success means every step of the list had both
HookOrder ==
    \A t \in Callers :
        CallsProcess(t) /\ pc[t] # "panic" =>
            /\ StepEvents(log[t], 1, frame[t].steps)
            /\ pc[t] = "ret" =>
                  /\ AfterCount(t) = BeforeCount(t)
                  /\ log[t] # <<>> => Last(log[t]).ev = "after"
                  /\ log[t] # <<>> /\ Last(log[t]).err # NoErr =>
                        ret[t].Err = Last(log[t]).err
                  /\ ret[t].Err = NoErr =>
                        AfterCount(t) = Len(hooks) * Len(frame[t].steps)

\* a call of two steps has returned after its second step was retried: both
\* steps had their before and after events around their attempts
HookOrderWitness ==
    \E t \in Callers :
        /\ CallsProcess(t)
        /\ pc[t] = "ret"
        /\ Len(frame[t].steps) = MaxSteps
        /\ AfterCount(t) = Len(hooks) * MaxSteps
        /\ Len(hooks) > 1
        /\ \E k \in DOMAIN log[t] :
              log[t][k].ev = "exec" /\ log[t][k].idx = MaxSteps /\ log[t][k].att > 1

OverCeiling(t) ==
    /\ CallsProcess(t)
    /\ frame[t].steps # <<>>
    /\ cfg.MaxImageBytes > 0
    /\ frame[t].src.size > cfg.MaxImageBytes

\* C23: with a byte ceiling M > 0, a Process call on a source of more than M
\* bytes never gets past ingestion: it builds no state from the bytes read,
\* fires no hook, executes no step, and returns no result and an error
CeilingFailsClosed ==
    \A t \in Callers :
        OverCeiling(t) =>
            /\ pc[t] \in {"call", "drain", "ret"}
            /\ lv[t].current = NilImg
            /\ lv[t].n <= cfg.MaxImageBytes
            /\ log[t] = <<>>
            /\ pc[t] = "ret" => ret[t].Result = NilResult /\ ret[t].Err # NoErr

\* the ceiling itself, not a cancellation, made the call fail after M bytes
CeilingFailsClosedWitness ==
    \E t \in Callers :
        /\ OverCeiling(t)
        /\ pc[t] = "ret"
        /\ lv[t].n = cfg.MaxImageBytes
        /\ ret[t].Err = Wrap("decode", "process.drain", ErrUnexpectedEOF)

-----------------------------------------------------------------------------
(* core/processor.go: DefaultRegistry, and the registry imageprocessor.New  *)
(* wires.  A map is a function on Formats whose value None stands for an    *)
(* absent key.                                                              *)

Formats == {"jpeg", "png", "webp", "gif"}
None == [isNone |-> TRUE]

\* core.NewRegistry: two empty maps and an unlocked RWMutex.
NewRegistry ==
    [writer |-> None, readers |-> {},
     decoders |-> [f \in Formats |-> None], encoders |-> [f \in Formats |-> None]]

\* imageprocessor.New, lines 32-39: the built-in codecs, the JPEG and WebP
\* encoders made with cfg.DefaultQuality.
WiredRegistry(c) ==
    [NewRegistry EXCEPT
        !.decoders = [f \in Formats |->
            IF f \in RegisteredDecoders THEN [codec |-> f] ELSE None],
        !.encoders = [f \in Formats |->
            IF f \in RegisteredDecoders
              THEN [codec |-> f, DefaultQuality |-> c.DefaultQuality]
              ELSE None]]

-----------------------------------------------------------------------------
(* Single calls: config.Validate, utils.ScaleDimensions and                *)
(* pipeline.AdaptiveCompressStep.Execute.                                   *)
(* pc of the adaptive step: "ac.call" -> "ac.head" -> "ac.encode" ->       *)
(* "ac.head" ... -> "ac.done" -> "ret".                                    *)

CallGoroutines == {<<"call", 1>>}

\* a Validate that accepts any chunk size
ValidateMut(c) ==
    IF c.DefaultQuality < 1 \/ c.DefaultQuality > 100
        THEN Plain("config: DefaultQuality must be between 1 and 100", 0)
    ELSE IF c.AdaptiveCompression.Enabled
            /\ c.AdaptiveCompression.MinQuality >= c.AdaptiveCompression.MaxQuality
        THEN Plain("config: AdaptiveCompression.MinQuality must be less than MaxQuality", 0)
    ELSE NoErr

\* config.Validate
Validate(c) ==
    IF c.DefaultQuality < 1 \/ c.DefaultQuality > 100
        THEN Plain("config: DefaultQuality must be between 1 and 100", 0)
    ELSE IF c.ChunkSize <= 0
        THEN Plain("config: ChunkSize must be positive", 0)
    ELSE IF c.AdaptiveCompression.Enabled
            /\ c.AdaptiveCompression.MinQuality >= c.AdaptiveCompression.MaxQuality
        THEN Plain("config: AdaptiveCompression.MinQuality must be less than MaxQuality", 0)
    ELSE NoErr

\* the caller runs config.Validate(c)
CallValidate(t) ==
    /\ pc[t] = "validate.call"
    /\ ret' = [ret EXCEPT ![t] = [Result |-> NilResult, Err |-> Validate(frame[t].c)]]
    /\ pc' = [pc EXCEPT ![t] = "ret"]
    /\ UNCHANGED <<cfg, hooks, counterVars, ctxState, frame, lv, log, deadline,
                   panicked, poolVars, otherVars>>

\* the caller runs utils.ScaleDimensions(srcW, srcH, targetW, targetH)
CallScaleDimensions(t) ==
    /\ pc[t] = "scale.call"
    /\ ret' = [ret EXCEPT ![t] =
            [Result |-> ScaleDimensions(frame[t].srcW, frame[t].srcH,
                                        frame[t].targetW, frame[t].targetH),
             Err |-> NoErr]]
    /\ pc' = [pc EXCEPT ![t] = "ret"]
    /\ UNCHANGED <<cfg, hooks, counterVars, ctxState, frame, lv, log, deadline,
                   panicked, poolVars, otherVars>>

\* pipeline.AdaptiveCompressStep
AdaptiveCompressStep(target, minQ, maxQ, stepSize) ==
    [name |-> "adaptive_compress", TargetSizeBytes |-> target, MinQuality |-> minQ,
     MaxQuality |-> maxQ, StepSize |-> stepSize]

\* encoder.JPEG.Encode(ctx, img, EncodeOptions{Quality: quality}); sizes tells
\* how many bytes the image takes at each quality.
Encode(enc, ctxErr, img, quality, sizes) ==
    IF ctxErr # NoErr THEN [data |-> None, err |-> Wrap("encode", "jpeg.encode", ctxErr)]
    ELSE IF img.Image = <<>>
        THEN [data |-> None, err |-> New("encode", "jpeg.encode", ErrEmptyInput)]
    ELSE LET q == IF quality <= 0 THEN enc.DefaultQuality ELSE quality
         IN [data |-> [name |-> img.Data.name, kind |-> enc.codec, len |-> sizes[q],
                       quality |-> q],
             err |-> NoErr]

\* the step returns the pair (img, err)
AdaptiveReturn(t, img, err) ==
    /\ ret' = [ret EXCEPT ![t] = [Result |-> img, Err |-> err]]
    /\ pc' = [pc EXCEPT ![t] = "ret"]

\* the passthrough test without the check for a missing encoder
PassesThroughMut(s, enc) == s.TargetSizeBytes <= 0

\* steps.go:242-249: the step returns its input when no target is set or
\* no encoder is registered for the image's format.
PassesThrough(s, enc) == s.TargetSizeBytes <= 0 \/ enc = None

\* steps.go:242-260: the two passthrough returns, then quality, minQ, step
\* and best are set up.
AdaptiveEntry(t) ==
    /\ pc[t] = "ac.call"
    /\ LET s == frame[t].step
           enc == registry.encoders[frame[t].img.Format]
       IN IF PassesThrough(s, enc)
            THEN /\ AdaptiveReturn(t, frame[t].img, NoErr)
                 /\ lv' = lv
            ELSE /\ lv' = [lv EXCEPT ![t] =
                        [enc |-> enc, quality |-> s.MaxQuality,
                         minQ |-> IF s.MinQuality > 0 THEN s.MinQuality
                                  ELSE s.MaxQuality - 1,
                         step |-> IF s.StepSize <= 0 THEN DefaultStepSize ELSE s.StepSize,
                         best |-> None]]
                 /\ pc' = [pc EXCEPT ![t] = "ac.head"]
                 /\ ret' = ret
    /\ UNCHANGED <<cfg, hooks, counterVars, ctxState, frame, log, deadline,
                   panicked, poolVars, otherVars>>

\* steps.go:261-264 and 275: the loop condition and the scope check.
AdaptiveLoopHead(t) ==
    /\ pc[t] = "ac.head"
    /\ IF lv[t].quality < lv[t].minQ
         THEN pc' = [pc EXCEPT ![t] = "ac.done"] /\ ret' = ret
       ELSE IF CtxErr(t) # NoErr
         THEN AdaptiveReturn(t, NilImg, Wrap("pipeline", "adaptive_compress", CtxErr(t)))
       ELSE pc' = [pc EXCEPT ![t] = "ac.encode"] /\ ret' = ret
    /\ UNCHANGED <<cfg, hooks, counterVars, ctxState, frame, lv, log, deadline,
                   panicked, poolVars, otherVars>>

\* the size test that ends the search, inverted
MeetsTargetMut(data, target) == data.len > target

\* steps.go:270: int64(len(data)) <= s.TargetSizeBytes
MeetsTarget(data, target) == data.len <= target

\* steps.go:265-274: one Encode at the current quality; best = data; break
\* when the target is met, otherwise quality -= step.
AdaptiveEncode(t) ==
    /\ pc[t] = "ac.encode"
    /\ LET o == Encode(lv[t].enc, CtxErr(t), frame[t].img, lv[t].quality, frame[t].sizes)
       IN /\ log' = [log EXCEPT ![t] =
                Append(@, [ev |-> "encode", quality |-> lv[t].quality, out |-> o])]
          /\ IF o.err # NoErr
               THEN /\ AdaptiveReturn(t, NilImg, o.err)
                    /\ lv' = lv
             ELSE IF MeetsTarget(o.data, frame[t].step.TargetSizeBytes)
               THEN /\ lv' = [lv EXCEPT ![t].best = o.data]
                    /\ pc' = [pc EXCEPT ![t] = "ac.done"]
                    /\ ret' = ret
             ELSE /\ lv' = [lv EXCEPT ![t].best = o.data, ![t].quality = @ - lv[t].step]
                  /\ pc' = [pc EXCEPT ![t] = "ac.head"]
                  /\ ret' = ret
    /\ UNCHANGED <<cfg, hooks, counterVars, ctxState, frame, deadline,
                   panicked, poolVars, otherVars>>

\* steps.go:277-280: out := *img; out.Data = best; out.Meta.SizeBytes = len(best).
AdaptiveFinish(t) ==
    /\ pc[t] = "ac.done"
    /\ AdaptiveReturn(t, [frame[t].img EXCEPT
            !.Data = lv[t].best,
            !.Meta = [Width |-> @.Width,
                      SizeBytes |-> IF lv[t].best = None THEN 0 ELSE lv[t].best.len]],
         NoErr)
    /\ UNCHANGED <<cfg, hooks, counterVars, ctxState, frame, lv, log, deadline,
                   panicked, poolVars, otherVars>>

\* The calls of the model: configurations around the limits Validate tests,
\* dimensions up to MaxDim, and adaptive steps with qualities up to MaxQuality
\* on a JPEG that was decoded, one that was not, and a decoded image of a
\* format without encoder.
ValidateCalls ==
    {[fn |-> "Validate", ctx |-> "ctx",
      c |-> [DefaultQuality |-> q, ChunkSize |-> k,
             AdaptiveCompression |-> [Enabled |-> e, MinQuality |-> a, MaxQuality |-> b]]] :
        q \in {0, 1, 100, 101}, k \in {-1, 0, 1}, e \in BOOLEAN,
        a \in {30, 95}, b \in {30, 95}}

ScaleCalls ==
    {[fn |-> "ScaleDimensions", ctx |-> "ctx",
      srcW |-> a, srcH |-> b, targetW |-> c, targetH |-> d] :
        a \in 1..MaxDim, b \in 1..MaxDim, c \in 0..MaxDim, d \in 0..MaxDim}

AdaptiveImages ==
    LET raw == ImageOf(MkSource("s", "jpeg", MagicLen))
        decoded == [raw EXCEPT !.Image = <<"decode">>, !.Meta.Width = SrcWidth]
    IN {raw, decoded, [decoded EXCEPT !.Format = "gif"]}

AdaptiveCalls ==
    {[fn |-> "AdaptiveCompressStep.Execute", ctx |-> "ctx",
      step |-> AdaptiveCompressStep(target, f, c, s), img |-> img, sizes |-> sizes] :
        target \in 0..1, c \in 2..MaxQuality, f \in 0..MaxQuality, s \in 0..2,
        img \in AdaptiveImages, sizes \in [1..MaxQuality -> 1..2]}

InitCalls ==
    /\ InitProcessor
    /\ cfg = MkConfig(1, 1, 0, 0, 0, 0)
    /\ hooks = <<>>
    /\ ctxState = [c \in {"ctx"} |-> "none"]
    /\ InitGoroutines(CallGoroutines)
    /\ frame \in [CallGoroutines -> ValidateCalls \cup ScaleCalls \cup AdaptiveCalls]
    /\ pc = [t \in CallGoroutines |->
                IF frame[t].fn = "Validate" THEN "validate.call"
                ELSE IF frame[t].fn = "ScaleDimensions" THEN "scale.call"
                ELSE "ac.call"]
    /\ InitNoPool
    /\ batch = NoBatch
    /\ pipeline = NoPipeline
    /\ variants = NoVariants
    /\ registry = WiredRegistry(cfg)

NextCalls ==
    \/ \E t \in CallGoroutines :
          \/ CallValidate(t)
          \/ CallScaleDimensions(t)
          \/ AdaptiveEntry(t)
          \/ AdaptiveLoopHead(t)
          \/ AdaptiveEncode(t)
          \/ AdaptiveFinish(t)
    \/ \E c \in DOMAIN ctxState : Cancel(c)

SpecCalls == InitCalls /\ [][NextCalls]_vars

-----------------------------------------------------------------------------
(* Properties of the adaptive compression step *)

AdaptiveStepOf(t) == frame[t].step
IsAdaptiveCall(t) == frame[t].fn = "AdaptiveCompressStep.Execute"
HasEncoder(t) == registry.encoders[frame[t].img.Format] # None

\* a search with a positive target, an encoder for the format, a positive
\* step size and a floor that is not above the ceiling
Searches(t) ==
    /\ IsAdaptiveCall(t)
    /\ AdaptiveStepOf(t).TargetSizeBytes > 0
    /\ HasEncoder(t)
    /\ AdaptiveStepOf(t).StepSize > 0
    /\ AdaptiveStepOf(t).MinQuality <= AdaptiveStepOf(t).MaxQuality

\* the k-th quality of the sequence C, C-S, C-2S, ...
QualityAt(t, k) == AdaptiveStepOf(t).MaxQuality - (k - 1) * AdaptiveStepOf(t).StepSize

\* the qualities of the sequence that are not below the floor and at which
\* the image is no larger than the target
MeetingQualities(t) ==
    {q \in {QualityAt(t, k) : k \in 1..MaxQuality} :
        /\ q >= AdaptiveStepOf(t).MinQuality
        /\ q \in DOMAIN frame[t].sizes
        /\ frame[t].sizes[q] <= AdaptiveStepOf(t).TargetSizeBytes}

Largest(S) == CHOOSE q \in S : \A r \in S : r <= q

\* The encodes of the call are at C, C-S, ... in order, none below the floor,
\* each but the last above the target; a call that returned without error
\* stopped because the last encode met the target or the next quality is
\* below the floor, and returned the bytes of the last encode: those of the
\* largest quality of the sequence that meets the target, when one does.
SearchesDownward(t) ==
    LET s == AdaptiveStepOf(t)
        n == Len(log[t])
    IN /\ \A k \in 1..n :
            /\ log[t][k].quality = QualityAt(t, k)
            /\ log[t][k].quality >= s.MinQuality
            /\ k < n => /\ log[t][k].out.err = NoErr
                        /\ log[t][k].out.data.len > s.TargetSizeBytes
       /\ pc[t] = "ret" /\ ret[t].Err = NoErr =>
            /\ n >= 1
            /\ Last(log[t]).out.err = NoErr
            /\ \/ Last(log[t]).out.data.len <= s.TargetSizeBytes
               \/ QualityAt(t, n + 1) < s.MinQuality
            /\ ret[t].Result.Data = Last(log[t]).out.data
            /\ ret[t].Result.Meta.SizeBytes = Last(log[t]).out.data.len
            /\ MeetingQualities(t) # {} =>
                  ret[t].Result.Data.quality = Largest(MeetingQualities(t))

\* C24 as stated: every search with floor F <= C, step S > 0 and a positive
\* target encodes at C, C-S, ... in order, stops at the first quality that
\* meets the target or when the next would be below F, and returns the last
\* encode
SearchDownToFloor == \A t \in CallGoroutines : Searches(t) => SearchesDownward(t)

\* C24: the same for every search whose floor F is positive
SearchDownToPositiveFloor ==
    \A t \in CallGoroutines :
        Searches(t) /\ AdaptiveStepOf(t).MinQuality > 0 => SearchesDownward(t)

\* a search that tried three qualities has returned the first that met the target
SearchDownToPositiveFloorWitness ==
    \E t \in CallGoroutines :
        /\ Searches(t)
        /\ AdaptiveStepOf(t).MinQuality > 0
        /\ pc[t] = "ret"
        /\ ret[t].Err = NoErr
        /\ Len(log[t]) = 3
        /\ MeetingQualities(t) # {}

\* an encoder whose output never grows when the quality is lowered
Monotone(sizes) ==
    \A q1, q2 \in DOMAIN sizes : q1 <= q2 => sizes[q1] <= sizes[q2]

\* C25: with an encoder whose output never grows when quality is lowered, a
\* search over [F, C] with step S never encodes below F and returns bytes no
\* larger than the encoding at quality F, whether or not the target was met
MonotoneConvergence ==
    \A t \in CallGoroutines :
        /\ Searches(t)
        /\ AdaptiveStepOf(t).MinQuality >= 1
        /\ Monotone(frame[t].sizes)
        => /\ \A k \in 1..Len(log[t]) : log[t][k].quality >= AdaptiveStepOf(t).MinQuality
           /\ pc[t] = "ret" /\ ret[t].Err = NoErr =>
                 ret[t].Result.Data.len <= frame[t].sizes[AdaptiveStepOf(t).MinQuality]

\* the same for the searches whose sequence C, C-S, ... passes through F
MonotoneConvergenceAligned ==
    \A t \in CallGoroutines :
        /\ Searches(t)
        /\ AdaptiveStepOf(t).MinQuality >= 1
        /\ Monotone(frame[t].sizes)
        /\ (AdaptiveStepOf(t).MaxQuality - AdaptiveStepOf(t).MinQuality)
               % AdaptiveStepOf(t).StepSize = 0
        => /\ \A k \in 1..Len(log[t]) : log[t][k].quality >= AdaptiveStepOf(t).MinQuality
           /\ pc[t] = "ret" /\ ret[t].Err = NoErr =>
                 ret[t].Result.Data.len <= frame[t].sizes[AdaptiveStepOf(t).MinQuality]

\* C26: when no encoder is registered for the state's format, the adaptive
\* compression step performs no encode and returns the state it was given,
\* unchanged, with no error
NoEncoderPassthrough ==
    \A t \in CallGoroutines :
        IsAdaptiveCall(t) /\ ~HasEncoder(t) =>
            /\ log[t] = <<>>
            /\ pc[t] \in {"ac.call", "ret"}
            /\ pc[t] = "ac.call" => ENABLED AdaptiveEntry(t)
            /\ pc[t] = "ret" => ret[t] = [Result |-> frame[t].img, Err |-> NoErr]

\* a step with a positive target has returned a GIF state as it was
NoEncoderPassthroughWitness ==
    \E t \in CallGoroutines :
        /\ IsAdaptiveCall(t)
        /\ ~HasEncoder(t)
        /\ AdaptiveStepOf(t).TargetSizeBytes > 0
        /\ frame[t].img.Format = "gif"
        /\ pc[t] = "ret"
        /\ ret[t].Result = frame[t].img

IsValidateCall(t) == frame[t].fn = "Validate"

\* the configurations the specification calls invalid
Rejected(c) ==
    \/ c.DefaultQuality < 1
    \/ c.DefaultQuality > 100
    \/ c.ChunkSize <= 0
    \/ c.AdaptiveCompression.Enabled
          /\ c.AdaptiveCompression.MinQuality >= c.AdaptiveCompression.MaxQuality

\* C28: Validate returns an error for every configuration whose default
\* quality is outside [1,100], whose chunk size is not positive, or whose
\* adaptive compression is enabled with MinQuality >= MaxQuality, and returns
\* no error for every other configuration
ValidateFailsClosed ==
    \A t \in CallGoroutines :
        IsValidateCall(t) /\ pc[t] = "ret" =>
            (ret[t].Err # NoErr <=> Rejected(frame[t].c))

\* Validate has rejected a configuration whose only fault is its chunk size
ValidateFailsClosedWitness ==
    \E t \in CallGoroutines :
        /\ IsValidateCall(t)
        /\ pc[t] = "ret"
        /\ ret[t].Err # NoErr
        /\ frame[t].c.DefaultQuality \in 1..100
        /\ frame[t].c.ChunkSize <= 0
        /\ ~frame[t].c.AdaptiveCompression.Enabled

IsScaleCall(t) == frame[t].fn = "ScaleDimensions"

\* x is an integer nearest to n / d (either neighbour at an exact half)
IsNearest(x, n, d) ==
    LET diff == x * d - n
    IN 2 * (IF diff < 0 THEN 0 - diff ELSE diff) <= d

\* C30: for positive srcW, srcH and tW, ScaleDimensions(srcW, srcH, tW, 0)
\* returns tW and srcH * tW / srcW rounded to the nearest integer, and
\* ScaleDimensions(srcW, srcH, 0, tH) returns srcW * tH / srcH rounded to the
\* nearest integer and tH
ScaleRoundsToNearest ==
    \A t \in CallGoroutines :
        IsScaleCall(t) /\ pc[t] = "ret" =>
            LET f == frame[t]
                r == ret[t].Result
            IN /\ f.targetW > 0 /\ f.targetH = 0 =>
                    /\ r[1] = f.targetW
                    /\ IsNearest(r[2], f.srcH * f.targetW, f.srcW)
               /\ f.targetW = 0 /\ f.targetH > 0 =>
                    /\ r[2] = f.targetH
                    /\ IsNearest(r[1], f.srcW * f.targetH, f.srcH)

\* what the function computes: the given side, and the other one truncated
ScaleTruncates ==
    \A t \in CallGoroutines :
        IsScaleCall(t) /\ pc[t] = "ret" =>
            LET f == frame[t]
                r == ret[t].Result
            IN /\ f.targetW > 0 /\ f.targetH = 0 =>
                    /\ r[1] = f.targetW
                    /\ r[2] * f.srcW <= f.srcH * f.targetW
                    /\ f.srcH * f.targetW < (r[2] + 1) * f.srcW
               /\ f.targetW = 0 /\ f.targetH > 0 =>
                    /\ r[2] = f.targetH
                    /\ r[1] * f.srcH <= f.srcW * f.targetH
                    /\ f.srcW * f.targetH < (r[1] + 1) * f.srcH

\* C29: a Processor built with a configuration that Validate rejects never
\* processes an input: no Process call on it returns a result
InvalidConfigNeverProcesses ==
    \A t \in Callers :
        CallsProcess(t) /\ Validate(cfg) # NoErr =>
            ~(pc[t] = "ret" /\ ret[t].Err = NoErr /\ ret[t].Result # NilResult)

-----------------------------------------------------------------------------
(* SpecRegistry: goroutines that register codecs in, and look codecs up    *)
(* from, one DefaultRegistry while it is in use.                            *)
(* pc of a registration: "reg.call" -> "reg.write" -> "reg.store" ->       *)
(* "reg.unlock" -> "ret"; of a lookup: "look.call" -> "look.read" ->       *)
(* "look.unlock" -> "ret".                                                  *)

Registrars == {<<"registrar", 1>>, <<"registrar", 2>>}
Lookers == {<<"lookup", 1>>, <<"lookup", 2>>}
RegistryGoroutines == Registrars \cup Lookers

\* the map a method of DefaultRegistry works on
MapOf(fn) == IF fn \in {"RegisterDecoder", "DecoderFor"} THEN "decoders" ELSE "encoders"

\* what a read of a map that another goroutine is writing can produce
Torn == [isTorn |-> TRUE]

\* The registry in use: the wired maps and the unlocked mutex, the set of
\* maps with a write under way, and for every key the value of the latest
\* registration that has returned.
RegistryInUse(c) ==
    LET r == WiredRegistry(c)
    IN [writer |-> r.writer, readers |-> r.readers,
        decoders |-> r.decoders, encoders |-> r.encoders,
        torn |-> {},
        done |-> [decoders |-> r.decoders, encoders |-> r.encoders]]

\* an RLock that does not wait for the writer
CanRLockMut(r) == TRUE

\* sync.RWMutex: Lock waits until no goroutine holds the mutex, RLock until
\* no writer holds it.
CanLock(r) == r.writer = None /\ r.readers = {}
CanRLock(r) == r.writer = None

RegistryUnchanged ==
    UNCHANGED <<cfg, hooks, counterVars, ctxState, frame, log, deadline,
                panicked, poolVars, batch, pipeline, variants>>

\* processor.go:341 and 347: r.mu.Lock()
RegLock(t) ==
    /\ pc[t] = "reg.call"
    /\ CanLock(registry)
    /\ registry' = [registry EXCEPT !.writer = [g |-> t]]
    /\ pc' = [pc EXCEPT ![t] = "reg.write"]
    /\ UNCHANGED <<lv, ret>>
    /\ RegistryUnchanged

\* processor.go:342 and 348: the map assignment begins; until it ends the
\* map is not in a state a reader may look at.
RegWriteBegin(t) ==
    /\ pc[t] = "reg.write"
    /\ registry' = [registry EXCEPT !.torn = @ \cup {MapOf(frame[t].fn)}]
    /\ pc' = [pc EXCEPT ![t] = "reg.store"]
    /\ UNCHANGED <<lv, ret>>
    /\ RegistryUnchanged

\* processor.go:342 and 348: the map assignment ends, map[f] = v.
RegWriteEnd(t) ==
    /\ pc[t] = "reg.store"
    /\ registry' = [registry EXCEPT ![MapOf(frame[t].fn)][frame[t].f] = frame[t].v,
                                    !.torn = @ \ {MapOf(frame[t].fn)}]
    /\ pc' = [pc EXCEPT ![t] = "reg.unlock"]
    /\ UNCHANGED <<lv, ret>>
    /\ RegistryUnchanged

\* processor.go:343-344 and 349-350: r.mu.Unlock() and the return; the
\* registration is complete.
RegUnlock(t) ==
    /\ pc[t] = "reg.unlock"
    /\ registry' = [registry EXCEPT !.writer = None,
                                    !.done[MapOf(frame[t].fn)][frame[t].f] = frame[t].v]
    /\ pc' = [pc EXCEPT ![t] = "ret"]
    /\ UNCHANGED <<lv, ret>>
    /\ RegistryUnchanged

\* processor.go:353 and 360: r.mu.RLock()
LookupRLock(t) ==
    /\ pc[t] = "look.call"
    /\ CanRLock(registry)
    /\ registry' = [registry EXCEPT !.readers = @ \cup {t}]
    /\ pc' = [pc EXCEPT ![t] = "look.read"]
    /\ UNCHANGED <<lv, ret>>
    /\ RegistryUnchanged

\* processor.go:354 and 361: d, ok := map[f].  A read of a map with a write
\* under way is a data race: it can see the old entry, the new one or
\* neither.  at is the value of the latest completed registration for the
\* key at the moment of the read.
LookupRead(t) ==
    /\ pc[t] = "look.read"
    /\ LET m == MapOf(frame[t].fn)
           entry == registry[m][frame[t].f]
       IN \E x \in (IF m \in registry.torn THEN {entry, None, Torn} ELSE {entry}) :
            lv' = [lv EXCEPT ![t] = [d |-> x, ok |-> x # None,
                                     at |-> registry.done[m][frame[t].f]]]
    /\ pc' = [pc EXCEPT ![t] = "look.unlock"]
    /\ UNCHANGED <<registry, ret>>
    /\ RegistryUnchanged

\* processor.go:355-356 and 362-363: r.mu.RUnlock(); return d, ok
LookupRUnlock(t) ==
    /\ pc[t] = "look.unlock"
    /\ registry' = [registry EXCEPT !.readers = @ \ {t}]
    /\ ret' = [ret EXCEPT ![t] = [Result |-> [d |-> lv[t].d, ok |-> lv[t].ok],
                                  Err |-> NoErr]]
    /\ pc' = [pc EXCEPT ![t] = "ret"]
    /\ UNCHANGED lv
    /\ RegistryUnchanged

\* a decoder or encoder of the caller's own
CustomCodec(t) == [codec |-> t, DefaultQuality |-> 0]

\* Each registrar registers its own codec as decoder or encoder of a format
\* that has a built-in codec or of one that has none; each lookup asks for
\* the decoder or the encoder of one of these formats.
RegistryFormats == {"jpeg", "gif"}

RegisterCalls(t) ==
    {[fn |-> fn, f |-> f, v |-> CustomCodec(t)] :
        fn \in {"RegisterDecoder", "RegisterEncoder"}, f \in RegistryFormats}

LookupCalls ==
    {[fn |-> fn, f |-> f] : fn \in {"DecoderFor", "EncoderFor"}, f \in RegistryFormats}

InitRegistry ==
    /\ InitProcessor
    /\ cfg = MkConfig(1, 1, 0, 0, 0, 0)
    /\ hooks = <<>>
    /\ ctxState = [c \in {"ctx"} |-> "none"]
    /\ InitGoroutines(RegistryGoroutines)
    /\ frame \in [RegistryGoroutines -> UNION {RegisterCalls(t) : t \in Registrars}
                                         \cup LookupCalls]
    /\ \A t \in Registrars : frame[t] \in RegisterCalls(t)
    /\ \A t \in Lookers : frame[t] \in LookupCalls
    /\ pc = [t \in RegistryGoroutines |->
                IF t \in Registrars THEN "reg.call" ELSE "look.call"]
    /\ InitNoPool
    /\ batch = NoBatch
    /\ pipeline = NoPipeline
    /\ variants = NoVariants
    /\ registry = RegistryInUse(cfg)

NextRegistry ==
    \/ \E t \in Registrars :
          \/ RegLock(t)
          \/ RegWriteBegin(t)
          \/ RegWriteEnd(t)
          \/ RegUnlock(t)
    \/ \E t \in Lookers :
          \/ LookupRLock(t)
          \/ LookupRead(t)
          \/ LookupRUnlock(t)

SpecRegistry == InitRegistry /\ [][NextRegistry]_vars

MapNames == {"decoders", "encoders"}

\* a lookup that has read its map, and one that has returned
HasRead(t) == pc[t] \in {"look.unlock", "ret"}
LookupReturned(t) == pc[t] = "ret"

\* the goroutine t is storing v under key f of map m
Stores(t, m, f) == pc[t] = "reg.store" /\ MapOf(frame[t].fn) = m /\ frame[t].f = f

\* While no registration is under way the maps hold, for every key, the value
\* of the latest registration that returned.
MapsAreLatest == registry.writer = None =>
    /\ registry.torn = {}
    /\ \A m \in MapNames : registry[m] = registry.done[m]

\* A lookup reads the value of the latest completed registration for its key
\* (None when there was none), never a map with a write under way, and
\* returns that value with ok telling whether there was one.
LookupSeesLatest ==
    \A t \in Lookers :
        /\ pc[t] \in {"look.read", "look.unlock"} =>
              /\ registry.writer = None
              /\ registry.torn = {}
        /\ HasRead(t) =>
              /\ lv[t].d # Torn
              /\ lv[t].d = lv[t].at
              /\ lv[t].ok = (lv[t].at # None)
        /\ pc[t] = "look.unlock" =>
              lv[t].at = registry.done[MapOf(frame[t].fn)][frame[t].f]
        /\ LookupReturned(t) =>
              ret[t] = [Result |-> [d |-> lv[t].at, ok |-> lv[t].at # None],
                        Err |-> NoErr]

\* An entry changes only when a registration for that map and that format
\* stores its value; every other entry of both maps stays as it was.
RegistrationIsLocal ==
    \A m \in MapNames : \A f \in Formats :
        registry'[m][f] # registry[m][f] =>
            \E t \in Registrars : Stores(t, m, f) /\ registry'[m][f] = frame[t].v

\* C27: in every interleaving of registrations and lookups, a lookup for a
\* format returns the value of the latest completed registration of its kind
\* for that format with ok = true, or (none, false) if there is none; it never
\* observes a map in an intermediate state; and a registration changes no
\* entry but the one of its own kind and format
RegistrySafe ==
    /\ [](MapsAreLatest /\ LookupSeesLatest)
    /\ [][RegistrationIsLocal]_vars

\* both registrars have registered a codec for the same key, one after the
\* other, a lookup has returned the later one and another lookup, which read
\* before, returned what the key held then
RegistrySafeWitness ==
    \E a, b \in Lookers :
        /\ a # b
        /\ \A t \in RegistryGoroutines : pc[t] = "ret"
        /\ \A r1, r2 \in Registrars : frame[r1].fn = frame[r2].fn /\ frame[r1].f = frame[r2].f
        /\ \A r \in Registrars : MapOf(frame[r].fn) = MapOf(frame[a].fn) /\ frame[r].f = frame[a].f
        /\ frame[a] = frame[b]
        /\ frame[a].f = "gif"
        /\ ret[a].Result = [d |-> registry[MapOf(frame[a].fn)]["gif"], ok |-> TRUE]
        /\ ret[b].Result = [d |-> None, ok |-> FALSE]

-----------------------------------------------------------------------------
(* SpecHooks: one goroutine calls Processor.Process while another calls    *)
(* Processor.AddHook on the same Processor.                                 *)
(* pc of AddHook: "addhook.call" -> "addhook.store" -> "ret".              *)

Adders == {<<"adder", 1>>}
HookGoroutines == Callers \cup Adders

\* the element a reader finds behind the end of the old backing array
Garbage == "garbage"

\* processor.go:67: p.hooks = append(p.hooks, h).  The slice header is read,
\* the new slice is built, and the store of the three-word header begins.
\* Nothing orders the store with the readers of p.hooks: until it ends a
\* reader can find the old header, the new one, or the new length with the
\* old array.
AddHookBegin(t) ==
    /\ pc[t] = "addhook.call"
    /\ lv' = [lv EXCEPT ![t] = [old |-> hooks]]
    /\ hooks' \in {hooks, Append(hooks, Garbage), Append(hooks, frame[t].h)}
    /\ pc' = [pc EXCEPT ![t] = "addhook.store"]
    /\ UNCHANGED <<cfg, counterVars, ctxState, frame, ret, log, deadline,
                   panicked, poolVars, otherVars>>

\* processor.go:67: the store of the header has ended.
AddHookEnd(t) ==
    /\ pc[t] = "addhook.store"
    /\ hooks' = Append(lv[t].old, frame[t].h)
    /\ pc' = [pc EXCEPT ![t] = "ret"]
    /\ UNCHANGED <<cfg, counterVars, ctxState, frame, lv, ret, log, deadline,
                   panicked, poolVars, otherVars>>

\* the Processor has one hook, and a second one is added while Process runs
InitHooks ==
    /\ InitProcessor
    /\ ctxState = [c \in {"ctx"} |-> "none"]
    /\ InitGoroutines(HookGoroutines)
    /\ InitNoPool
    /\ batch = NoBatch
    /\ variants = NoVariants
    /\ registry = NoRegistry
    /\ pipeline = NoPipeline
    /\ cfg \in {MkConfig(1, 1, 0, r, 0, 0) : r \in 0..1}
    /\ hooks = <<"h1">>
    /\ pc = [t \in HookGoroutines |-> IF t \in Callers THEN "call" ELSE "addhook.call"]
    /\ frame \in [HookGoroutines ->
                    {MkFrame("ctx", s, l) : s \in Sources, l \in StepLists} \cup {[h |-> "h2"]}]
    /\ \A t \in Callers : frame[t] # [h |-> "h2"]
    /\ \A t \in Adders : frame[t] = [h |-> "h2"]

NextHooks ==
    \/ \E t \in Callers : ProcessStep(t)
    \/ \E t \in Adders : AddHookBegin(t) \/ AddHookEnd(t)
    \/ \E c \in DOMAIN ctxState : Cancel(c)

SpecHooks == InitHooks /\ [][NextHooks]_vars

\* the next step of t reads p.hooks (notifyBefore or notifyAfter)
ReadsHooksNext(t) ==
    \/ pc[t] = "loop" /\ lv[t].idx <= Len(StepsOf(t)) /\ CtxErr(t) = NoErr
    \/ pc[t] = "after"

\* a goroutine is in the middle of its store to p.hooks
WritesHooks(t) == pc[t] = "addhook.store"

\* the hooks of the notifications in a log
HooksNotified(L) == {L[k].hook : k \in {j \in 1..Len(L) : L[j].ev \in {"before", "after"}}}

\* C31: AddHook is safe to run concurrently with Process: no read of the hook
\* list happens while a write of it is under way, and every notification goes
\* to a hook of the list before or of the list after the registration
AddHookIsSynchronized ==
    /\ \A w \in Adders : \A t \in Callers : ~(WritesHooks(w) /\ ReadsHooksNext(t))
    /\ \A t \in Callers : HooksNotified(log[t]) \subseteq {"h1", "h2"}

\* the worker w is inside processJob
InProcessJob(w) == pc[w] \notin {"unborn", "select", "exited"}

\* where a job is: how often in the queue, which workers run it
TimesQueued(j) == Cardinality({k \in 1..Len(jobQueue) : jobQueue[k].ID = j})
WorkersOn(j) == {w \in Workers : InProcessJob(w) /\ curJob[w] = j}

\* the result tuples of job j that were sent, received or not
TuplesIn(q, j) == Cardinality({k \in 1..Len(q) : q[k].JobID = j})
TuplesOf(j) == TuplesIn(received, j) + TuplesIn(chans["ch"], j)

\* An accepted job is in the queue once, or with one worker, or done; a job
\* with a result destination has one tuple once it is done and none before,
\* a job without one never has a tuple.
JobAccounting ==
    \A j \in JobIds :
        /\ TimesQueued(j) + Cardinality(WorkersOn(j)) <= 1
        /\ jobState[j] = "queued" <=> TimesQueued(j) = 1
        /\ jobState[j] = "running" <=> WorkersOn(j) # {}
        /\ jobState[j] \in {"new", "rejected"} => TuplesOf(j) = 0
        /\ TuplesOf(j) = (IF jobState[j] = "done" /\ jobs[j].ResultCh # "nil" THEN 1 ELSE 0)

\* A worker takes a job only from the queue, and a job that is done is not
\* taken again.
DequeuedOnce ==
    \A j \in JobIds :
        /\ jobState[j] # "running" /\ jobState'[j] = "running" => jobState[j] = "queued"
        /\ jobState[j] = "done" => jobState'[j] = "done"

\* A tuple sent to the result channel is the one of a worker returning from
\* the Process call it made for that job: the job's id, source and steps, the
\* call's result and error.
TupleIsOwn ==
    Len(chans'["ch"]) > Len(chans["ch"]) =>
        \E w \in Workers :
            /\ pc[w] = "ret"
            /\ jobs[curJob[w]].ResultCh = "ch"
            /\ frame[w] = MkFrame(jobs[curJob[w]].Ctx, jobs[curJob[w]].Source,
                                  jobs[curJob[w]].Steps)
            /\ chans'["ch"][Len(chans'["ch"])] =
                  [JobID |-> curJob[w], Result |-> ret[w].Result, Err |-> ret[w].Err]
            /\ pc'[w] = "select"

\* C32: every accepted job is dequeued by at most one worker and processed at
\* most once; a processed job with a result destination gets exactly one
\* result tuple, a job without one gets none, and the tuple carries the job's
\* id with the result and error of the job's own Process call
JobProcessedOnce ==
    /\ []JobAccounting
    /\ [][DequeuedOnce /\ TupleIsOwn]_vars

\* two jobs with a result destination are done, the tuple of one was received
\* and the tuple of the other is in the channel, and the fire-and-forget job
\* is done as well
JobProcessedOnceWitness ==
    /\ \A j \in JobIds : jobState[j] = "done"
    /\ Len(received) = 1
    /\ Len(chans["ch"]) = 1
    /\ received[1].JobID # chans["ch"][1].JobID

SpawnedBranches == {<<"variant", i>> : i \in 1..variants.i}

\* a branch that was spawned and has not ended
BranchRuns(b) == pc[b] \in {"v.clone", "v.step", "v.read"}
BranchEnded(b) == pc[b] = "v.done"
BranchSucceeded(b) == BranchEnded(b) /\ variants.local[b].stepErr = NoErr

\* C33: when a variant branch fails its siblings are not cancelled: a sibling
\* that has not ended can always take its next step, a sibling that ends
\* without error has executed every one of its steps and stored its result,
\* and ProcessVariants returns only after every branch has ended, with the
\* first error and without the results of the siblings that succeeded
SiblingsNotCancelled ==
    variants # NoVariants /\ ~panicked =>
        /\ \A b \in SpawnedBranches :
              /\ BranchRuns(b) => ENABLED VariantStep(b)
              /\ BranchSucceeded(b) =>
                    /\ variants.local[b].k = Len(frame[b].vd.Steps) + 1
                    /\ frame[b].vd.Name \in DOMAIN variants.variantResults
        /\ pc[VariantsCaller] = "pv.ret" /\ variants.errs # <<>> =>
              /\ \A b \in SpawnedBranches : BranchEnded(b)
              /\ variants.i = Len(variants.defs)
              /\ variants.out = [Result |-> NilResult, Err |-> variants.errs[1]]

\* ProcessVariants has returned the error of one branch although the other
\* branch ran its two steps to the end and stored its result
SiblingsNotCancelledWitness ==
    /\ variants # NoVariants
    /\ pc[VariantsCaller] = "pv.ret"
    /\ Len(variants.errs) = 1
    /\ variants.out.Result = NilResult
    /\ \E b \in SpawnedBranches :
          /\ BranchSucceeded(b)
          /\ Len(frame[b].vd.Steps) = 2
          /\ variants.variantResults[frame[b].vd.Name] = variants.local[b].result

\* the steps a variant branch has executed so far
StepsExecuted(b) ==
    IF pc[b] \in {"v.step", "v.read"} THEN variants.local[b].k - 1
    ELSE IF BranchSucceeded(b) THEN Len(frame[b].vd.Steps)
    ELSE IF BranchEnded(b) THEN variants.local[b].k
    ELSE 0

\* the hooks that were told, in order, that a step begins or has ended
NotifiedOf(L, ev) ==
    LET ks == {k \in 1..Len(L) : L[k].ev = ev}
        RECURSIVE Pick(_)
        Pick(S) == IF S = {} THEN <<>>
                   ELSE LET m == CHOOSE x \in S : \A y \in S : x <= y
                        IN <<L[m].hook>> \o Pick(S \ {m})
    IN Pick(ks)

RECURSIVE Repeat(_, _)
Repeat(s, n) == IF n = 0 THEN <<>> ELSE s \o Repeat(s, n - 1)

\* C34: every registered hook is invoked, in registration order, for every
\* step of every variant branch of ProcessVariants: a branch that has executed
\* n steps has sent n rounds of BeforeStep events, and between steps as many
\* rounds of AfterStep events
VariantStepsNotifyHooks ==
    variants # NoVariants =>
        \A b \in SpawnedBranches :
            /\ NotifiedOf(log[b], "before") = Repeat(hooks, StepsExecuted(b))
            /\ pc[b] \in {"v.step", "v.done"} =>
                  NotifiedOf(log[b], "after") = Repeat(hooks, StepsExecuted(b))

\* the same for the steps of the base run, which Process executes
BaseStepsNotifyHooks ==
    variants # NoVariants /\ pc[VariantsCaller] \in {"loop", "pv.loop", "pv.wait", "pv.ret"} =>
        /\ NotifiedOf(log[VariantsCaller], "before")
              = Repeat(hooks, Len(NotifiedOf(log[VariantsCaller], "before")) \div Len(hooks))
        /\ NotifiedOf(log[VariantsCaller], "after") = NotifiedOf(log[VariantsCaller], "before")

-----------------------------------------------------------------------------
(* SpecSteps: one Execute call of a built-in step on a state value whose    *)
(* EXIF map and decoded image are objects on the heap.  A state value holds *)
(* their addresses; heap maps an address to the object.                     *)

StepCallers == {<<"step", 1>>}

Nil == "nil"

QualityStep(q) == [name |-> "quality", Quality |-> q]
StripEXIFStep == [name |-> "strip_exif"]
VipsStripEXIFStep == [name |-> "vips.strip_exif"]

\* a state value: Image is Nil, the address of an image.Image or that of a
\* *VipsImage; Meta.EXIF is Nil or the address of a map.
StateValue(format, image, width, exif) ==
    [Format |-> format, Image |-> image,
     Meta |-> [Format |-> format, Width |-> width, EXIF |-> exif,
               HasEXIF |-> exif # Nil, Orientation |-> IF exif # Nil THEN 6 ELSE 0]]

IsGoAddr(a) == a \in {"go1", "go2"}
IsVipsAddr(a) == a = "vips1"

\* the heap with the object at address a replaced or allocated
HeapWith(heap, a, obj) == [x \in DOMAIN heap \cup {a} |-> IF x = a THEN obj ELSE heap[x]]

StepOut(img, err, heap) == [img |-> img, err |-> err, heap |-> heap]

\* steps.go:110-115: FormatStep.Execute
FormatOnHeap(step, img, heap) ==
    StepOut([img EXCEPT !.Format = "png", !.Meta.Format = "png"], NoErr, heap)

\* steps.go:127-135: QualityStep.Execute.  out := *img copies the address of
\* the EXIF map; the map is made only when there is none, and the key is
\* stored in the map out.Meta.EXIF points to.
QualityOnHeap(step, img, heap) ==
    IF img.Meta.EXIF = Nil
      THEN StepOut([img EXCEPT !.Meta.EXIF = "m2"], NoErr,
                   HeapWith(heap, "m2", [k \in {"_quality"} |-> step.Quality]))
      ELSE StepOut(img, NoErr,
                   HeapWith(heap, img.Meta.EXIF,
                            [k \in DOMAIN heap[img.Meta.EXIF] \cup {"_quality"} |->
                                IF k = "_quality" THEN step.Quality
                                ELSE heap[img.Meta.EXIF][k]]))

\* steps.go:144-150: StripEXIFStep.Execute
StripEXIFOnHeap(step, img, heap) ==
    StepOut([img EXCEPT !.Meta.EXIF = Nil, !.Meta.HasEXIF = FALSE,
                        !.Meta.Orientation = 0], NoErr, heap)

\* steps.go:30-63: ResizeStep.Execute; the scaled pixels go to a new image.
ResizeOnHeap(step, ctxErr, img, heap) ==
    IF ctxErr # NoErr THEN StepOut(Nil, Wrap("pipeline", "resize", ctxErr), heap)
    ELSE IF ~IsGoAddr(img.Image)
        THEN StepOut(Nil, New("pipeline", "resize", ErrEmptyInput), heap)
    ELSE LET srcW == heap[img.Image].Width
             dstW == ScaleWidth(srcW, step.Width)
         IN IF dstW = srcW THEN StepOut(img, NoErr, heap)
            ELSE IF dstW <= 0
                THEN StepOut(Nil, New("pipeline", "resize",
                                      Plain("invalid dimensions", 0)), heap)
            ELSE StepOut([img EXCEPT !.Image = "go2", !.Meta.Width = dstW], NoErr,
                         HeapWith(heap, "go2", [Width |-> dstW]))

\* vips/processor.go:198-219: VipsResizeStep.Execute; vi.ref.Resize scales the
\* image behind the handle.
VipsResizeOnHeap(step, ctxErr, img, heap) ==
    IF ctxErr # NoErr THEN StepOut(Nil, Wrap("pipeline", "vips.resize", ctxErr), heap)
    ELSE IF ~IsVipsAddr(img.Image)
        THEN StepOut(Nil, New("pipeline", "vips.resize",
                              Plain("expected *VipsImage", 0)), heap)
    ELSE LET dstW == ScaleWidth(img.Meta.Width, step.Width)
         IN IF dstW = img.Meta.Width THEN StepOut(img, NoErr, heap)
            ELSE LET w == (heap[img.Image].Width * dstW) \div img.Meta.Width
                 IN StepOut([img EXCEPT !.Meta.Width = w], NoErr,
                            HeapWith(heap, img.Image,
                                     [heap[img.Image] EXCEPT !.Width = w]))

\* vips/processor.go:257-266: VipsStripEXIFStep.Execute; RemoveMetadata works
\* on the image behind the handle.
VipsStripEXIFOnHeap(step, img, heap) ==
    StepOut([img EXCEPT !.Meta.EXIF = Nil, !.Meta.HasEXIF = FALSE,
                        !.Meta.Orientation = 0], NoErr,
            IF IsVipsAddr(img.Image)
              THEN HeapWith(heap, img.Image, [heap[img.Image] EXCEPT !.HasMetadata = FALSE])
              ELSE heap)

\* step.Execute(ctx, img)
ExecuteOnHeap(step, ctxErr, img, heap) ==
    IF step.name = "format" THEN FormatOnHeap(step, img, heap)
    ELSE IF step.name = "quality" THEN QualityOnHeap(step, img, heap)
    ELSE IF step.name = "strip_exif" THEN StripEXIFOnHeap(step, img, heap)
    ELSE IF step.name = "resize" THEN ResizeOnHeap(step, ctxErr, img, heap)
    ELSE IF step.name = "vips.resize" THEN VipsResizeOnHeap(step, ctxErr, img, heap)
    ELSE VipsStripEXIFOnHeap(step, img, heap)

\* the caller runs step.Execute(ctx, img); frame keeps the heap of the call
StepExecute(t) ==
    /\ pc[t] = "step.call"
    /\ LET o == ExecuteOnHeap(frame[t].step, CtxErr(t), frame[t].img, lv[t].heap)
       IN /\ ret' = [ret EXCEPT ![t] = [Result |-> o.img, Err |-> o.err]]
          /\ lv' = [lv EXCEPT ![t].heap = o.heap]
    /\ pc' = [pc EXCEPT ![t] = "ret"]
    /\ UNCHANGED <<cfg, hooks, counterVars, ctxState, frame, log, deadline,
                   panicked, poolVars, otherVars>>

\* The built-in steps called, and the states they are called on: not decoded,
\* decoded by the standard or by the vips decoder, with or without EXIF map.
BuiltinSteps ==
    {FormatStep, StripEXIFStep, VipsStripEXIFStep}
        \cup {QualityStep(q) : q \in {80, 90}}
        \cup {ResizeStep(w) : w \in {0, MaxDim \div 2, MaxDim}}
        \cup {VipsResizeStep(w) : w \in {0, MaxDim \div 2, MaxDim}}

StepHeap ==
    [a \in {"go1", "vips1", "m1"} |->
        IF a = "go1" THEN [Width |-> MaxDim]
        ELSE IF a = "vips1" THEN [Width |-> MaxDim, HasMetadata |-> TRUE]
        ELSE [k \in {"Make"} |-> "camera"]]

StepStates ==
    {StateValue("jpeg", i, IF i = Nil THEN 0 ELSE MaxDim, e) :
        i \in {Nil, "go1", "vips1"}, e \in {Nil, "m1"}}

InitSteps ==
    /\ InitProcessor
    /\ cfg = MkConfig(1, 1, 0, 0, 0, 0)
    /\ hooks = <<>>
    /\ ctxState = [c \in {"ctx"} |-> "none"]
    /\ ret = [t \in StepCallers |-> NoRet]
    /\ log = [t \in StepCallers |-> <<>>]
    /\ deadline = [t \in StepCallers |-> "off"]
    /\ lv = [t \in StepCallers |-> [heap |-> StepHeap]]
    /\ frame \in [StepCallers ->
                    {[ctx |-> "ctx", step |-> s, img |-> i, heap |-> StepHeap] :
                        s \in BuiltinSteps, i \in StepStates}]
    /\ pc = [t \in StepCallers |-> "step.call"]
    /\ InitNoPool
    /\ batch = NoBatch
    /\ pipeline = NoPipeline
    /\ variants = NoVariants
    /\ registry = NoRegistry

NextSteps ==
    \/ \E t \in StepCallers : StepExecute(t)
    \/ \E c \in DOMAIN ctxState : Cancel(c)

SpecSteps == InitSteps /\ [][NextSteps]_vars

\* what a state value says when its addresses are followed in heap
Deref(img, heap) ==
    [img EXCEPT !.Image = IF @ = Nil THEN Nil ELSE heap[@],
                !.Meta.EXIF = IF @ = Nil THEN Nil ELSE heap[@]]

StepReturned(t) == pc[t] = "ret"

\* C35: every built-in step leaves its input state unchanged: after Execute
\* returns, every field of the state it was given, the contents of its EXIF
\* map and of its decoded image included, is what it was before the call
InputStateUnchanged ==
    \A t \in StepCallers :
        StepReturned(t) =>
            Deref(frame[t].img, lv[t].heap) = Deref(frame[t].img, frame[t].heap)

\* the steps that write through an address they share with their input
WritesShared(step, img) ==
    \/ step.name = "quality" /\ img.Meta.EXIF # Nil
    \/ step.name = "vips.strip_exif" /\ IsVipsAddr(img.Image)
    \/ step.name = "vips.resize" /\ IsVipsAddr(img.Image)

\* every other call leaves its input as it was
InputStateUnchangedElsewhere ==
    \A t \in StepCallers :
        StepReturned(t) /\ ~WritesShared(frame[t].step, frame[t].img) =>
            Deref(frame[t].img, lv[t].heap) = Deref(frame[t].img, frame[t].heap)

\* the scope of t is cancelled or expired while t is in a retry wait
CancelledAtWait(t) == pc[t] \in {"wait", "run.wait"} /\ CtxErr(t) # NoErr

\* t leaves its retry wait for another attempt of the step
WaitEndsInAttempt(t) ==
    /\ pc[t] \in {"wait", "run.wait"}
    /\ pc'[t] \in {"retry", "run.attempt"}

\* C36: once the scope of a call is cancelled or expired, the retry policy
\* starts no further attempt: a retry wait that can observe the cancellation
\* never ends in another Execute of the step, whichever of the cancellation
\* and the end of the delay is served first
NoAttemptAfterCancellation ==
    [][\A t \in Callers : CancelledAtWait(t) => ~WaitEndsInAttempt(t)]_vars

\* the Execute calls of the step at index i that returned without error
GoodExecs(L, i) == {k \in 1..Len(L) : L[k].ev = "exec" /\ L[k].idx = i /\ L[k].err = NoErr}

\* the call of t has gone past n steps as successful
StepsPassed(t) == IF lv[t] = NoLocals \/ lv[t].idx = 0 THEN 0 ELSE lv[t].idx - 1

\* t has returned a result without error
ReturnedSuccess(t) == pc[t] \in {"ret", "run.ret"} /\ ret[t].Err = NoErr

\* C37: for every value of maxRetries, negative ones included, a step that a
\* Process call or a Pipeline run went past as successful was executed and one
\* of its Execute calls returned without error; a call never returns success
\* with a result that no step produced
EveryStepExecuted ==
    \A t \in Callers :
        /\ \A i \in 1..StepsPassed(t) : GoodExecs(log[t], i) # {}
        /\ ReturnedSuccess(t) /\ pipeline = NoPipeline =>
              \E k \in GoodExecs(log[t], Len(StepsOf(t))) :
                  ret[t].Result.Primary = log[t][k].out

\* the same for the values of maxRetries that are not negative
EveryStepExecutedNonNegative ==
    (IF pipeline = NoPipeline THEN cfg.MaxRetries ELSE pipeline.maxRetries) >= 0
        => EveryStepExecuted

\* Process has returned an error of the ingestion
DrainFailed(t) ==
    pc[t] = "ret" /\ ret[t].Err # NoErr /\ ret[t].Err.kind = "pe"
        /\ ret[t].Err.Op = "process.drain"

\* the source of the call is within the ceiling, or there is none
WithinCeiling(t) == cfg.MaxImageBytes = 0 \/ frame[t].src.size <= cfg.MaxImageBytes

\* the call is past the ingestion
Ingested(t) == pc[t] \in {"loop", "retry", "wait", "after"}

\* C38: with a ceiling M > 0 every source of at most M bytes, one of exactly
\* M bytes included, is ingested completely and unmodified and the ingestion
\* does not fail; with M = 0 every source is ingested completely
CeilingAdmitsUpToMax ==
    \A t \in Callers :
        CallsProcess(t) /\ WithinCeiling(t) =>
            /\ DrainFailed(t) => ret[t].Err.Err \in ScopeErrors
            /\ Ingested(t) =>
                  /\ lv[t].n = frame[t].src.size
                  /\ lv[t].idx = 1 => lv[t].current.Data = Bytes(frame[t].src, frame[t].src.size)

\* the same for the sources shorter than the ceiling
CeilingAdmitsBelowMax ==
    \A t \in Callers :
        CallsProcess(t) /\ (cfg.MaxImageBytes = 0 \/ frame[t].src.size < cfg.MaxImageBytes) =>
            /\ DrainFailed(t) => ret[t].Err.Err \in ScopeErrors
            /\ Ingested(t) =>
                  /\ lv[t].n = frame[t].src.size
                  /\ lv[t].idx = 1 => lv[t].current.Data = Bytes(frame[t].src, frame[t].src.size)

-----------------------------------------------------------------------------
(* SpecLive: the worker pool under a fair scheduler and with a client that  *)
(* receives every result sent to its channel.                               *)

\* one worker, a queue of one job and a job timeout
InitLive == InitPool /\ cfg = MkConfig(1, 1, 1, 1, 0, 0)

SpecLive ==
    /\ InitLive
    /\ [][NextPool]_vars
    /\ \A w \in Workers : WF_vars(WorkerStep(w))
    /\ \A l \in Lifecyclers : WF_vars(LifecycleStep(l))
    /\ \A ch \in {"ch"} : WF_vars(Receive(ch))

StartCalled == once # "idle"
StopCalled == shutdown = "closed"

\* the job was accepted and waits in the queue
Accepted(j) == jobState[j] = "queued"

\* the job has reached its terminal outcome and, when it has a result
\* destination, its result tuple has been sent
Terminal(j) ==
    /\ jobState[j] = "done"
    /\ jobs[j].ResultCh # "nil" => TuplesOf(j) = 1

\* C39: if Start has been called and Stop never is, then under fair
\* scheduling and with a client that keeps its result channel drained, every
\* job Submit accepted is eventually dequeued and reaches a terminal outcome
\* with its result delivered
AcceptedJobsComplete ==
    [](~StopCalled) =>
        \A j \in JobIds : (Accepted(j) /\ StartCalled) ~> Terminal(j)

\* a job that waited in the queue behind another one has been processed and
\* its result received while the pool was never stopped
AcceptedJobsCompleteWitness ==
    /\ ~StopCalled
    /\ StartCalled
    /\ \A j \in JobIds : jobState[j] \in {"done", "rejected"}
    /\ \E j \in JobIds : j > 1 /\ Terminal(j) /\ TuplesIn(received, j) = 1

\* C40: no job is accepted after shutdown: once Stop has been called every
\* Submit returns an error and enqueues nothing
NoSubmitAfterStop ==
    [][StopCalled /\ SubmitReturns =>
            /\ submitted'[Len(submitted')] # NoErr
            /\ jobQueue' = jobQueue]_vars

====
